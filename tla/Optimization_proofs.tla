------------------------- MODULE Optimization_proofs -------------------------
(***************************************************************************)
(* Proofs about optimization runs, for any number of parameters, folds,    *)
(* rounds, runs of the experiment and reselections, any chunk size and     *)
(* whatever the engine answers.  Three inductive invariants, each over the *)
(* one before: IInv follows each row from the search through the buffer    *)
(* into the file, and what the files say of the run through the writes of  *)
(* start and finish; SearchInv says what the batches, the rows and the     *)
(* trajectories of a phase are, for each of the search methods; FinalInv   *)
(* says what the selection decided from them and what of it is filed.      *)
(* At the end, laws of the pure rules around a search, for every input:    *)
(* the windows that trials are scored on and the proposals of samplers.    *)
(***************************************************************************)
EXTENDS Optimization, SequenceTheorems, FiniteSetTheorems, WellFoundedInduction, TLAPS

Statuses == {"none", "torn", "running", "completed"}
Finishing == {"best", "manifest", "complete"}
Steps == {"idle", "index", "ask", "emit", "cross", "select", "close"} \cup Finishing

IsSeq(q) == q \in Seq({q[i] : i \in DOMAIN q})

TypeOK ==
    /\ run \in Nat /\ pc \in Steps /\ writer \in BOOLEAN
    /\ loop = [fold |-> loop.fold, round |-> loop.round, todo |-> loop.todo,
               top |-> loop.top, trail |-> loop.trail]
    /\ loop.fold \in Nat /\ loop.round \in Nat
    /\ IsSeq(rows) /\ IsSeq(buffer) /\ IsSeq(trials.rows)
    /\ trials = [run |-> trials.run, rows |-> trials.rows, footer |-> trials.footer]
    /\ trials.run \in Nat /\ trials.footer \in BOOLEAN
    /\ manifest \in [run : Nat, status : Statuses]
    /\ index \in [run : Nat, status : Statuses, count : Nat]

\* Every phase has evaluated something: the file of a run that is closed was
\* opened by it.
Searching ==
    /\ pc = "index" => rows = << >> /\ buffer = << >>
    /\ pc = "ask" /\ rows = << >> =>
          /\ loop.round = 0
          /\ method = "successive_halving" =>
                IsSeq(loop.trail) /\ Len(loop.trail) = InitialCandidates
    /\ pc = "emit" => rows # << >> \/ loop.todo # << >>
    /\ pc \in {"cross", "select", "close"} \cup Finishing => rows # << >>
    /\ pc \in {"select", "close"} => buffer = << >>
    /\ pc \in {"idle", "index"} \cup Finishing => ~writer

\* What the files say of the running process by the write it is at.
Announced ==
    /\ pc # "idle" =>
          /\ manifest.run = run
          /\ manifest.status = IF pc = "complete" THEN "completed" ELSE "running"
    /\ pc \notin {"idle", "index"} => index.run = run /\ index.status = "running"
    /\ pc \in Finishing => trials.footer
    /\ pc \in {"manifest", "complete"} => best.run = run

IInv == TypeOK /\ NoRowLost /\ Searching /\ Announced /\ CompletedIsWhole

-----------------------------------------------------------------------------
(* Sequences of whatever elements                                          *)

\* What a member of Seq(S) is, without its S.
LEMMA IsSeqOf == ASSUME NEW S, NEW q \in Seq(S) PROVE IsSeq(q)
<1>1. Len(q) \in Nat /\ DOMAIN q = 1..Len(q) /\ q = [i \in 1..Len(q) |-> q[i]]
  BY LenProperties
<1> QED
  BY <1>1 DEF IsSeq

\* Any two sequences are sequences of one set.
LEMMA TwoSeqs ==
    ASSUME NEW q, NEW r, IsSeq(q), IsSeq(r)
    PROVE  \E S : q \in Seq(S) /\ r \in Seq(S)
<1> DEFINE A == {q[i] : i \in DOMAIN q}
           B == {r[i] : i \in DOMAIN r}
<1>1. q \in Seq(A) /\ r \in Seq(B)
  BY DEF IsSeq
<1> HIDE DEF A, B
<1>2. q \in Seq(A \cup B) /\ r \in Seq(A \cup B)
  BY <1>1
<1> QED
  BY <1>2

\* The empty sequence is one.
LEMMA EmptyIsSeq == IsSeq(<< >>)
<1>1. << >> \in Seq({})
  OBVIOUS
<1> QED
  BY <1>1, IsSeqOf

\* A row that is appended.
LEMMA Appended ==
    ASSUME NEW q, NEW e, IsSeq(q)
    PROVE  /\ IsSeq(Append(q, e)) /\ Append(q, e) # << >>
           /\ Len(q) \in Nat /\ DOMAIN Append(q, e) = 1..(Len(q) + 1)
           /\ DOMAIN q = 1..Len(q)
           /\ \A i \in DOMAIN q : Append(q, e)[i] = q[i]
           /\ Append(q, e)[Len(q) + 1] = e
<1> DEFINE A == {q[i] : i \in DOMAIN q}
<1>1. q \in Seq(A)
  BY DEF IsSeq
<1> HIDE DEF A
<1>2. q \in Seq(A \cup {e}) /\ e \in A \cup {e}
  BY <1>1
<1> DEFINE B == A \cup {e}
<1> HIDE DEF B
<1>3. q \in Seq(B) /\ e \in B
  BY <1>2 DEF B
<1>4. /\ Append(q, e) \in Seq(B) /\ Append(q, e) # << >>
      /\ Len(q) \in Nat /\ Len(Append(q, e)) = Len(q) + 1
      /\ \A i \in 1..Len(q) : Append(q, e)[i] = q[i]
      /\ Append(q, e)[Len(q) + 1] = e
  BY <1>3, AppendProperties, LenProperties
<1> QED
  BY <1>3, <1>4, IsSeqOf, LenProperties

\* Concatenation: its type, its unit, and where an appended element goes.
LEMMA Joined ==
    ASSUME NEW q, NEW r, IsSeq(q), IsSeq(r)
    PROVE  /\ IsSeq(q \o r) /\ q \o << >> = q /\ << >> \o q = q
           /\ r # << >> => q \o r # << >>
           /\ \A e : Append(q \o r, e) = q \o Append(r, e)
<1>1. PICK S : q \in Seq(S) /\ r \in Seq(S)
  BY TwoSeqs
<1>2. q \o r \in Seq(S) /\ q \o << >> = q /\ << >> \o q = q
  BY <1>1
<1>3. r # << >> => q \o r # << >>
  BY <1>1
<1>4. ASSUME NEW e PROVE Append(q \o r, e) = q \o Append(r, e)
  <2>1. q \in Seq(S \cup {e}) /\ r \in Seq(S \cup {e}) /\ e \in S \cup {e}
    BY <1>1
  <2> QED
    BY <2>1
<1> QED
  BY <1>2, <1>3, <1>4, IsSeqOf

-----------------------------------------------------------------------------
(* The cascade of successive halving                                       *)

\* A nonempty set of numbers has a least one.
LEMMA LeastExists ==
    ASSUME NEW S \in SUBSET Nat, S # {}
    PROVE  \E n \in S : \A k \in S : n <= k
<1>1. PICK n \in S : \A k \in S : ~(<<k, n>> \in OpToRel(<, Nat))
  BY NatLessThanWellFounded, WFMin
<1>2. \A k \in S : ~(k < n)
  BY <1>1 DEF OpToRel
<1> QED
  BY <1>2

\* Budgets stay positive as they are multiplied.
LEMMA Multiplied ==
    ASSUME NEW a \in Nat \ {0}, NEW b \in Nat \ {0}
    PROVE  a * b \in Nat \ {0}
  OBVIOUS

\* What _rung_budgets appends up to a rung, before it is capped.
Cascade(n) ==
    {f \in [0..n -> Nat \ {0}] :
        f[0] = InitialFolds /\ \A i \in 1..n : f[i] = f[i - 1] * Eta}

\* A cascade of budgets exists up to every rung, by the least rung without one.
LEMMA CascadeExists == ASSUME NEW n \in Nat PROVE Cascade(n) # {}
<1> DEFINE Bad == {k \in Nat : Cascade(k) = {}}
<1> SUFFICES ASSUME Bad # {} PROVE FALSE
  OBVIOUS
<1>1. PICK k \in Bad : \A j \in Bad : k <= j
  BY LeastExists
<1>2. k # 0
  <2>1. [i \in 0..0 |-> InitialFolds] \in Cascade(0)
    BY SizesAssumption DEF Cascade
  <2> QED
    BY <2>1
<1>3. PICK f \in Cascade(k - 1) : TRUE
  BY <1>1, <1>2
<1>4. f \in [0..(k - 1) -> Nat \ {0}] /\ f[0] = InitialFolds
      /\ \A i \in 1..(k - 1) : f[i] = f[i - 1] * Eta
  BY <1>3 DEF Cascade
<1> DEFINE last == f[k - 1] * Eta
           g == [i \in 0..k |-> IF i = k THEN last ELSE f[i]]
<1>5. last \in Nat \ {0}
  BY <1>2, <1>4, Multiplied, SizesAssumption
<1>6. /\ g[0] = InitialFolds /\ g[k] = f[k - 1] * Eta /\ g[k - 1] = f[k - 1]
      /\ \A i \in 0..(k - 1) : g[i] = f[i]
  BY <1>2, <1>4
<1> HIDE DEF last
<1>7. g \in [0..k -> Nat \ {0}]
  BY <1>2, <1>4, <1>5
<1> HIDE DEF g
<1>8. \A i \in 1..k : g[i] = g[i - 1] * Eta
  <2> TAKE i \in 1..k
  <2>1. CASE i = k
    BY <1>6, <2>1
  <2>2. CASE i # k
    <3>1. i \in 1..(k - 1) /\ i \in 0..(k - 1) /\ i - 1 \in 0..(k - 1)
      BY <2>2
    <3> QED
      BY <1>4, <1>6, <3>1
  <2> QED
    BY <2>1, <2>2
<1>9. g \in Cascade(k)
  BY <1>6, <1>7, <1>8 DEF Cascade
<1> QED
  BY <1>9

\* Two cascades give a rung the same budget.
LEMMA CascadesAgree ==
    ASSUME NEW m \in Nat, NEW n \in Nat, NEW f \in Cascade(m), NEW g \in Cascade(n),
           NEW i \in 0..m, i <= n
    PROVE  f[i] = g[i]
<1> DEFINE Bad == {k \in Nat : k <= m /\ k <= n /\ f[k] # g[k]}
<1> SUFFICES ASSUME Bad # {} PROVE FALSE
  OBVIOUS
<1>1. PICK k \in Bad : \A j \in Bad : k <= j
  BY LeastExists
<1>2. k # 0
  BY DEF Cascade
<1>3. f[k] = f[k - 1] * Eta /\ g[k] = g[k - 1] * Eta
  BY <1>2 DEF Cascade
<1>4. f[k - 1] = g[k - 1]
  BY <1>1, <1>2
<1> QED
  BY <1>3, <1>4

\* The recursion has a solution, so that Uncapped is one.
LEMMA UncappedIs ==
    ASSUME NEW r \in Nat
    PROVE  Uncapped[r] = IF r = 0 THEN InitialFolds ELSE Uncapped[r - 1] * Eta
<1> DEFINE C(n) == CHOOSE f \in Cascade(n) : TRUE
           F == [n \in Nat |-> C(n)[n]]
<1>1. ASSUME NEW n \in Nat
      PROVE  F[n] = IF n = 0 THEN InitialFolds ELSE F[n - 1] * Eta
  <2>1. C(n) \in Cascade(n) /\ F[n] = C(n)[n]
    BY CascadeExists
  <2>2. CASE n = 0
    BY <2>1, <2>2 DEF Cascade
  <2>3. CASE n # 0
    <3>1. n - 1 \in Nat /\ C(n - 1) \in Cascade(n - 1) /\ F[n - 1] = C(n - 1)[n - 1]
      BY <2>3, CascadeExists
    <3> HIDE DEF C, F
    <3>2. C(n)[n - 1] = C(n - 1)[n - 1]
      BY <2>1, <3>1, CascadesAgree
    <3>3. C(n)[n] = C(n)[n - 1] * Eta
      BY <2>1, <2>3 DEF Cascade
    <3> QED
      BY <2>1, <2>3, <3>1, <3>2, <3>3
  <2> QED
    BY <2>2, <2>3
<1>2. F = [n \in Nat |-> IF n = 0 THEN InitialFolds ELSE F[n - 1] * Eta]
  <2>1. F = [n \in Nat |-> F[n]]
    OBVIOUS
  <2> HIDE DEF F
  <2> QED
    BY <1>1, <2>1
<1> HIDE DEF F
<1>3. Uncapped = [n \in Nat |-> IF n = 0 THEN InitialFolds ELSE Uncapped[n - 1] * Eta]
  BY <1>2 DEF Uncapped
<1> QED
  BY <1>3

\* The first rung runs on some fold.
LEMMA FirstRung == Budget(0) \in Nat \ {0}
  BY UncappedIs, SizesAssumption DEF Budget

-----------------------------------------------------------------------------
(* The steps                                                               *)

\* Where the rows evaluated so far are: in the file that is open, then in
\* `held`; or in `held` alone when none is.
Kept(held, all) ==
    /\ writer => trials.run = run /\ trials.rows \o held = all
    /\ ~writer => held = all

\* A flush of `held` leaves the rows where they are to be found.
LEMMA FlushIs ==
    ASSUME TypeOK, run' = run, NEW held, IsSeq(held), NEW all, Kept(held, all), Flush(held)
    PROVE  /\ buffer' = << >> /\ IsSeq(buffer') /\ writer' \in BOOLEAN
           /\ trials' = [run |-> trials'.run, rows |-> trials'.rows, footer |-> trials'.footer]
           /\ trials'.run \in Nat /\ trials'.footer \in BOOLEAN /\ IsSeq(trials'.rows)
           /\ Kept(buffer, all)'
           /\ all # << >> => writer'
<1>1. CASE held = << >>
  <2>1. buffer' = << >> /\ writer' = writer /\ trials' = trials
    BY <1>1 DEF Flush, TypeOK
  <2> QED
    BY <1>1, <2>1, EmptyIsSeq DEF TypeOK, Kept
<1>2. CASE held # << >>
  <2> DEFINE there == IF writer THEN trials.rows ELSE << >>
  <2>1. IsSeq(there) /\ there \o held = all
    BY EmptyIsSeq, Joined DEF TypeOK, Kept
  <2>2. /\ buffer' = << >> /\ writer' = TRUE
        /\ trials' = [run |-> run, rows |-> there \o held, footer |-> FALSE]
    BY <1>2 DEF Flush, Written
  <2> HIDE DEF there
  <2>3. IsSeq(all) /\ all \o << >> = all
    BY <2>1, Joined
  <2> QED
    BY <2>1, <2>2, <2>3, EmptyIsSeq DEF TypeOK, Kept
<1> QED
  BY <1>1, <1>2

\* NoRowLost while a run searches.
LEMMA KeptHere ==
    ASSUME IInv, pc \notin {"idle", "best", "manifest", "complete"}
    PROVE  Kept(buffer, rows)
  BY DEF IInv, NoRowLost, Kept

\* What a step need not look at once the run is announced.
LEMMA StaysAnnounced ==
    ASSUME IInv, pc \notin {"idle", "index"} \cup Finishing,
           pc' \notin {"idle", "index"} \cup Finishing,
           UNCHANGED <<run, manifest, index>>
    PROVE  Announced' /\ CompletedIsWhole'
  BY DEF IInv, Announced, CompletedIsWhole, Finishing

\* Fresh and its variants are loops.
LoopOK(l) ==
    /\ l = [fold |-> l.fold, round |-> l.round, todo |-> l.todo, top |-> l.top, trail |-> l.trail]
    /\ l.fold \in Nat /\ l.round \in Nat

\* A loop starts before its first round.
LEMMA FreshIs ==
    ASSUME NEW f \in Nat
    PROVE  LoopOK(Fresh(f)) /\ Fresh(f).round = 0
  BY DEF Fresh, LoopOK

\* The end of a batch: the buffer goes out, and the search goes on.
LEMMA BatchEnds ==
    ASSUME IInv, BatchDone, Flush(buffer), UNCHANGED <<run, rows, manifest, index>>,
           pc' \in {"ask", "cross", "select"}, LoopOK(loop')
    PROVE  IInv'
<1> USE DEF IInv
<1>1. pc = "emit" /\ rows # << >> /\ Kept(buffer, rows)
  BY KeptHere DEF BatchDone, Searching
<1>2. /\ buffer' = << >> /\ IsSeq(buffer') /\ writer' \in BOOLEAN
      /\ trials' = [run |-> trials'.run, rows |-> trials'.rows, footer |-> trials'.footer]
      /\ trials'.run \in Nat /\ trials'.footer \in BOOLEAN /\ IsSeq(trials'.rows)
      /\ Kept(buffer, rows)'
  BY <1>1, FlushIs DEF TypeOK, Kept
<1>3. TypeOK'
  BY <1>2 DEF TypeOK, LoopOK, Steps
<1>4. NoRowLost'
  BY <1>2 DEF NoRowLost, Kept
<1>5. Searching'
  BY <1>1, <1>2 DEF Searching, Finishing
<1>6. Announced' /\ CompletedIsWhole'
  BY <1>1, StaysAnnounced DEF Finishing
<1> QED
  BY <1>3, <1>4, <1>5, <1>6

\* A concluded search goes to ask or to the cross-validation, with a loop well formed.
LEMMA ConcludeIs ==
    ASSUME TypeOK, NEW w, Conclude(w)
    PROVE  pc' \in {"ask", "cross"} /\ LoopOK(loop')
<1>1. loop.fold + 1 \in Nat
  BY DEF TypeOK
<1> QED
  BY <1>1, FreshIs DEF Conclude

\* A next round asks again, with a loop well formed.
LEMMA NextRoundIs ==
    ASSUME TypeOK, NEW trail, NextRound(trail)
    PROVE  pc' = "ask" /\ LoopOK(loop')
<1>1. loop.round + 1 \in Nat
  BY DEF TypeOK
<1>2. loop' = [loop EXCEPT !.round = loop.round + 1, !.trail = trail] /\ pc' = "ask"
  BY DEF NextRound
<1>3. loop' = [fold |-> loop.fold, round |-> loop.round + 1, todo |-> loop.todo,
               top |-> loop.top, trail |-> trail]
  BY <1>2 DEF TypeOK
<1> QED
  BY <1>1, <1>2, <1>3 DEF LoopOK, TypeOK

\* The end of a batch of any strategy keeps the invariant.
LEMMA EndInv ==
    ASSUME IInv, EndOneShot \/ EndRound \/ EndSeeding \/ EndPolish \/ EndRung \/ EndCross
    PROVE  IInv'
<1> USE DEF IInv
<1>1. CASE EndOneShot
  <2>1. BatchDone /\ Flush(buffer) /\ UNCHANGED <<run, rows, manifest, index>>
        /\ \E w : Conclude(w)
    BY <1>1 DEF EndOneShot
  <2> QED
    BY <2>1, ConcludeIs, BatchEnds
<1>2. CASE EndRound
  <2>1. BatchDone /\ Flush(buffer) /\ UNCHANGED <<run, rows, manifest, index>>
        /\ \/ \E trail : NextRound(trail)
           \/ \E w : Conclude(w)
    BY <1>2 DEF EndRound
  <2> QED
    BY <2>1, ConcludeIs, NextRoundIs, BatchEnds
<1>3. CASE EndSeeding
  <2>1. BatchDone /\ Flush(buffer) /\ UNCHANGED <<run, rows, manifest, index>>
        /\ \/ \E trail : NextRound(trail)
           \/ \E w : Conclude(w)
    BY <1>3, Zenon DEF EndSeeding
  <2> QED
    BY <2>1, ConcludeIs, NextRoundIs, BatchEnds
<1>4. CASE EndPolish
  <2>1. BatchDone /\ Flush(buffer) /\ UNCHANGED <<run, rows, manifest, index>>
        /\ \/ \E trail : NextRound(trail)
           \/ \E w : Conclude(w)
    BY <1>4, Zenon DEF EndPolish
  <2> QED
    BY <2>1, ConcludeIs, NextRoundIs, BatchEnds
<1>5. CASE EndRung
  <2>1. BatchDone /\ Flush(buffer) /\ UNCHANGED <<run, rows, manifest, index>>
        /\ \/ \E trail : NextRound(trail)
           \/ pc' = "cross" /\ loop' = Fresh(0)
    BY <1>5, Zenon DEF EndRung
  <2> QED
    BY <2>1, NextRoundIs, FreshIs, BatchEnds
<1>6. CASE EndCross
  <2>1. BatchDone /\ Flush(buffer) /\ UNCHANGED <<run, rows, manifest, index, loop>>
        /\ pc' = "select"
    BY <1>6 DEF EndCross
  <2> QED
    BY <2>1, BatchEnds DEF TypeOK, LoopOK
<1> QED
  BY <1>1, <1>2, <1>3, <1>4, <1>5, <1>6

\* Starting an optimization keeps the invariant.
LEMMA StartInv == ASSUME IInv, Begin \/ Register PROVE IInv'
<1> USE DEF IInv
<1>1. CASE Begin
  <2>1. /\ pc = "idle" /\ pc' = "index" /\ run' = run + 1
        /\ manifest' = [run |-> run + 1, status |-> "running"]
        /\ UNCHANGED <<loop, rows, buffer, writer, trials, best, index>>
    BY <1>1 DEF Begin
  <2>2. TypeOK'
    BY <2>1 DEF TypeOK, Steps, Statuses
  <2>3. NoRowLost' /\ Searching'
    BY <2>1 DEF NoRowLost, Searching, Finishing
  <2>4. Announced' /\ CompletedIsWhole'
    BY <2>1 DEF Announced, CompletedIsWhole, Finishing, Whole
  <2> QED
    BY <2>2, <2>3, <2>4
<1>2. CASE Register
  <2>1. /\ pc = "index" /\ pc' = "ask" /\ index' = [run |-> run, status |-> "running", count |-> 0]
        /\ UNCHANGED <<method, run, rows, buffer, writer, manifest, trials, best>>
    BY <1>2 DEF Register, Registration
  <2>2. /\ LoopOK(loop') /\ loop'.round = 0
        /\ method = "successive_halving" =>
              IsSeq(loop'.trail) /\ Len(loop'.trail) = InitialCandidates
    <3>1. CASE method = "successive_halving"
      <4>1. PICK ps \in [1..InitialCandidates -> Params] :
                loop' = [Fresh(1) EXCEPT !.trail = [i \in DOMAIN ps |-> [params |-> ps[i]]]]
        BY <1>2, <3>1 DEF Register
      <4> DEFINE trail == [i \in 1..InitialCandidates |-> [params |-> ps[i]]]
      <4>2. loop' = [fold |-> 1, round |-> 0, todo |-> << >>, top |-> << >>, trail |-> trail]
        BY <4>1 DEF Fresh
      <4>3. trail \in Seq([params : Params]) /\ Len(trail) = InitialCandidates
        BY SizesAssumption
      <4> HIDE DEF trail
      <4> QED
        BY <4>2, <4>3, IsSeqOf DEF LoopOK
    <3>2. CASE method # "successive_halving"
      <4>1. loop' = Fresh(1)
        BY <1>2, <3>2 DEF Register
      <4> QED
        BY <3>2, <4>1, FreshIs
    <3> QED
      BY <3>1, <3>2
  <2>3. TypeOK'
    BY <2>1, <2>2 DEF TypeOK, LoopOK, Steps, Statuses
  <2>4. NoRowLost' /\ Searching'
    BY <2>1, <2>2 DEF NoRowLost, Searching, Finishing
  <2>5. Announced' /\ CompletedIsWhole'
    BY <2>1 DEF Announced, CompletedIsWhole, Finishing
  <2> QED
    BY <2>3, <2>4, <2>5
<1> QED
  BY <1>1, <1>2

\* The first batch of a search evaluates something.
LEMMA FirstBatch ==
    ASSUME IInv, pc = "ask", rows = << >>, NEW batch \in TrainBatches
    PROVE  1 \in DOMAIN batch
<1>1. /\ loop.round = 0
      /\ method = "successive_halving" =>
            IsSeq(loop.trail) /\ Len(loop.trail) = InitialCandidates
  BY DEF IInv, Searching
<1>2. CASE method = "grid"
  <2>1. batch = OnFold([p \in Params |-> p])
    BY <1>2 DEF TrainBatches
  <2> QED
    BY <2>1, SizesAssumption DEF OnFold, Params
<1>3. CASE method = "successive_halving"
  <2>1. batch = Grid(TrailParams, Budget(0), "train")
    BY <1>1, <1>3 DEF TrainBatches
  <2> DEFINE n == InitialCandidates * Budget(0)
  <2>2. DOMAIN loop.trail = 1..InitialCandidates
    BY <1>1, <1>3 DEF IsSeq
  <2>3. TrailParams \in Seq({loop.trail[i].params : i \in DOMAIN loop.trail})
        /\ Len(TrailParams) = InitialCandidates
    BY <2>2, SizesAssumption DEF TrailParams
  <2>4. DOMAIN batch = 1..n
    BY <2>1, <2>3 DEF Grid
  <2>5. n \in Nat \ {0}
    BY FirstRung, Multiplied, SizesAssumption
  <2> HIDE DEF n
  <2> QED
    BY <2>4, <2>5
<1>4. CASE method \notin {"grid", "successive_halving"}
  <2>1. PICK ps \in Sample : batch = OnFold(ps)
    BY <1>1, <1>4 DEF TrainBatches
  <2> QED
    BY <2>1, SizesAssumption DEF OnFold, Sample
<1> QED
  BY <1>2, <1>3, <1>4

\* Evaluating a batch keeps the invariant.
LEMMA EvaluateInv == ASSUME IInv, SearchBatch \/ CrossValidate PROVE IInv'
<1> USE DEF IInv
<1>1. PICK batch :
        /\ Evaluate(batch)
        /\ \/ pc = "ask" /\ batch \in TrainBatches
           \/ pc = "cross"
  BY DEF SearchBatch, CrossValidate
<1>2. PICK answer \in Answers(batch) :
        /\ loop' = [loop EXCEPT !.todo = answer] /\ pc' = "emit"
        /\ UNCHANGED <<run, rows, buffer, writer, manifest, trials, best, index>>
  BY <1>1 DEF Evaluate, disk
<1>3. DOMAIN answer = DOMAIN batch
  BY Zenon DEF Answers, Of
<1>4. rows # << >> \/ answer # << >>
  <2>1. CASE pc = "ask" /\ rows = << >>
    BY <1>1, <1>3, <2>1, FirstBatch
  <2>2. CASE rows # << >>
    BY <2>2
  <2> QED
    BY <1>1, <2>1, <2>2 DEF Searching
<1>5. loop' = [fold |-> loop.fold, round |-> loop.round, todo |-> answer,
               top |-> loop.top, trail |-> loop.trail]
  BY <1>2 DEF TypeOK
<1>6. TypeOK'
  BY <1>2, <1>5 DEF TypeOK, Steps
<1>7. NoRowLost' /\ Searching'
  BY <1>1, <1>2, <1>4, <1>5 DEF NoRowLost, Searching, Finishing
<1>8. Announced' /\ CompletedIsWhole'
  BY <1>1, <1>2, StaysAnnounced DEF Finishing
<1> QED
  BY <1>6, <1>7, <1>8

\* Emitting a trial row keeps the invariant.
LEMMA EmitInv == ASSUME IInv, EmitRow PROVE IInv'
<1> USE DEF IInv
<1> DEFINE row == TrialRow(Head(loop.todo))
<1>1. /\ pc = "emit" /\ pc' = "emit" /\ rows' = Append(rows, row)
      /\ \E todo, top : loop' = [loop EXCEPT !.todo = todo, !.top = top]
      /\ \/ Flush(Append(buffer, row))
         \/ buffer' = Append(buffer, row) /\ UNCHANGED <<writer, trials>>
      /\ UNCHANGED <<run, manifest, best, index>>
  BY DEF EmitRow
<1>2. row.id = Len(rows)
  BY DEF TrialRow, NextTrialId
<1> HIDE DEF row
<1>3. /\ IsSeq(rows') /\ rows' # << >>
      /\ \A i \in DOMAIN rows' : rows'[i].id = i - 1
  <2>1. /\ IsSeq(rows') /\ rows' # << >> /\ Len(rows) \in Nat
        /\ DOMAIN rows' = 1..(Len(rows) + 1) /\ DOMAIN rows = 1..Len(rows)
        /\ \A i \in DOMAIN rows : rows'[i] = rows[i]
        /\ rows'[Len(rows) + 1] = row
    <3>1. IsSeq(rows) /\ rows' = Append(rows, row)
      BY <1>1 DEF TypeOK
    <3> PICK q : q = rows
      OBVIOUS
    <3> QED
      BY <3>1, Appended
  <2>2. \A i \in DOMAIN rows : rows[i].id = i - 1
    BY DEF NoRowLost
  <2>3. ASSUME NEW i \in DOMAIN rows' PROVE rows'[i].id = i - 1
    <3>1. CASE i \in DOMAIN rows
      BY <2>1, <2>2, <3>1
    <3>2. CASE i = Len(rows) + 1
      BY <1>2, <2>1, <3>2
    <3> QED
      BY <2>1, <3>1, <3>2
  <2> QED
    BY <2>1, <2>3
<1>4. IsSeq(Append(buffer, row)) /\ Kept(Append(buffer, row), rows')
  <2>1. Kept(buffer, rows)
    BY <1>1, KeptHere
  <2>2. IsSeq(buffer) /\ IsSeq(trials.rows)
    BY DEF TypeOK
  <2>3. Append(trials.rows \o buffer, row) = trials.rows \o Append(buffer, row)
    <3> DEFINE written == trials.rows
    <3> HIDE DEF written
    <3>1. IsSeq(written) /\ IsSeq(buffer)
      BY <2>2 DEF written
    <3>2. \A e : Append(written \o buffer, e) = written \o Append(buffer, e)
      BY <3>1, Joined
    <3> QED
      BY <3>2 DEF written
  <2> QED
    BY <1>1, <2>1, <2>2, <2>3, Appended DEF Kept
<1>5. /\ IsSeq(buffer') /\ writer' \in BOOLEAN
      /\ trials' = [run |-> trials'.run, rows |-> trials'.rows, footer |-> trials'.footer]
      /\ trials'.run \in Nat /\ trials'.footer \in BOOLEAN /\ IsSeq(trials'.rows)
      /\ Kept(buffer, rows)'
  <2>1. CASE Flush(Append(buffer, row))
    <3> DEFINE held == Append(buffer, row)
               all == rows'
    <3>1. TypeOK /\ run' = run /\ IsSeq(held) /\ Kept(held, all) /\ Flush(held)
      BY <1>1, <1>4, <2>1
    <3> HIDE DEF held, all
    <3>2. /\ IsSeq(buffer') /\ writer' \in BOOLEAN
          /\ trials' = [run |-> trials'.run, rows |-> trials'.rows, footer |-> trials'.footer]
          /\ trials'.run \in Nat /\ trials'.footer \in BOOLEAN /\ IsSeq(trials'.rows)
          /\ writer' => trials'.run = run' /\ trials'.rows \o buffer' = all
          /\ ~writer' => buffer' = all
      BY <3>1, FlushIs DEF Kept
    <3> QED
      BY <3>2 DEF all, Kept
  <2>2. CASE buffer' = Append(buffer, row) /\ UNCHANGED <<writer, trials>>
    BY <1>1, <1>4, <2>2 DEF TypeOK, Kept
  <2> QED
    BY <1>1, <2>1, <2>2
<1>6. LoopOK(loop')
  BY <1>1 DEF TypeOK, LoopOK
<1>7. TypeOK'
  BY <1>1, <1>3, <1>5, <1>6 DEF TypeOK, LoopOK
<1>8. NoRowLost'
  BY <1>1, <1>3, <1>5 DEF NoRowLost, Kept
<1>9. Searching'
  BY <1>1, <1>3 DEF Searching, Finishing
<1>10. Announced' /\ CompletedIsWhole'
  BY <1>1, StaysAnnounced DEF Finishing
<1> QED
  BY <1>7, <1>8, <1>9, <1>10

\* The writes of finish, one after another.
LEMMA FinishInv ==
    ASSUME IInv, Select \/ CloseTrials \/ WriteBest \/ WriteManifest
    PROVE  IInv'
<1> USE DEF IInv
<1>1. CASE Select
  <2>1. /\ pc = "select" /\ pc' = "close"
        /\ UNCHANGED <<run, loop, rows, buffer, writer, manifest, trials, best, index>>
    BY <1>1, Zenon DEF Select, disk
  <2>2. TypeOK' /\ NoRowLost' /\ Searching'
    BY <2>1 DEF TypeOK, NoRowLost, Searching, Finishing, Steps
  <2> QED
    BY <2>1, <2>2, StaysAnnounced DEF Finishing
<1>2. CASE CloseTrials
  <2>1. /\ pc = "close" /\ pc' = "best" /\ writer' = FALSE
        /\ trials' = [trials EXCEPT !.footer = TRUE]
        /\ UNCHANGED <<run, loop, rows, buffer, manifest, best, index>>
    BY <1>2 DEF CloseTrials
  <2>2. trials' = [run |-> trials.run, rows |-> trials.rows, footer |-> TRUE]
    BY <2>1 DEF TypeOK
  <2>3. rows # << >> /\ buffer = << >> /\ Kept(buffer, rows)
    BY <2>1, KeptHere DEF Searching
  <2>4. trials.run = run /\ trials.rows = rows
    BY <2>3, Joined DEF Kept, TypeOK
  <2>5. TypeOK'
    BY <2>1, <2>2 DEF TypeOK, Steps, Finishing
  <2>6. NoRowLost' /\ Searching'
    BY <2>1, <2>2, <2>3, <2>4 DEF NoRowLost, Searching, Finishing
  <2>7. Announced' /\ CompletedIsWhole'
    BY <2>1, <2>2 DEF Announced, CompletedIsWhole, Finishing
  <2> QED
    BY <2>5, <2>6, <2>7
<1>3. CASE WriteBest
  <2>1. /\ pc = "best" /\ pc' = "manifest" /\ best'.run = run
        /\ UNCHANGED <<run, loop, rows, buffer, writer, manifest, trials, index>>
    BY <1>3, Zenon DEF WriteBest
  <2>2. TypeOK' /\ NoRowLost' /\ Searching'
    BY <2>1 DEF TypeOK, NoRowLost, Searching, Finishing, Steps
  <2>3. Announced' /\ CompletedIsWhole'
    BY <2>1 DEF Announced, CompletedIsWhole, Finishing
  <2> QED
    BY <2>2, <2>3
<1>4. CASE WriteManifest
  <2>1. /\ pc = "manifest" /\ pc' = "complete"
        /\ manifest' = [manifest EXCEPT !.status = "completed"]
        /\ UNCHANGED <<run, loop, rows, buffer, writer, best, trials, index>>
    BY <1>4 DEF WriteManifest
  <2>2. manifest' = [run |-> manifest.run, status |-> "completed"]
    BY <2>1 DEF TypeOK
  <2>3. TypeOK' /\ NoRowLost' /\ Searching'
    BY <2>1, <2>2 DEF TypeOK, NoRowLost, Searching, Finishing, Steps, Statuses
  <2>4. Announced'
    BY <2>1, <2>2 DEF Announced, Finishing
  <2>5. CompletedIsWhole'
    BY <2>1, <2>2 DEF CompletedIsWhole, Announced, NoRowLost, Whole, Finishing
  <2> QED
    BY <2>3, <2>4, <2>5
<1> QED
  BY <1>1, <1>2, <1>3, <1>4

\* Completion, a death and a death in the middle of a write keep the invariant.
LEMMA StopInv == ASSUME IInv, CompleteIndex \/ Die \/ DieWriting PROVE IInv'
<1> USE DEF IInv
<1>1. Forgotten
  BY DEF CompleteIndex, Die, DieWriting
<1>2. /\ pc' = "idle" /\ rows' = << >> /\ buffer' = << >> /\ writer' = FALSE
      /\ LoopOK(loop') /\ IsSeq(rows') /\ IsSeq(buffer')
  BY <1>1, FreshIs, EmptyIsSeq DEF Forgotten
<1>3. NoRowLost' /\ Searching' /\ Announced'
  BY <1>2 DEF NoRowLost, Searching, Announced, Finishing
<1>4. CASE CompleteIndex
  <2>1. /\ pc = "complete"
        /\ index' = [run |-> index.run, status |-> "completed", count |-> Len(rows)]
        /\ UNCHANGED <<run, manifest, trials, best>>
    BY <1>4 DEF CompleteIndex
  <2>2. Len(rows) \in Nat
    BY LenProperties DEF TypeOK, IsSeq
  <2>3. TypeOK'
    BY <1>2, <2>1, <2>2 DEF TypeOK, LoopOK, Steps, Statuses
  <2>4. index.run = run /\ trials.run = run /\ trials.rows = rows /\ trials.footer
        /\ best.run = run /\ manifest.run = run
    <3>1. trials.run = run /\ trials.rows = rows
      BY <2>1 DEF NoRowLost
    <3> QED
      BY <2>1, <3>1 DEF Announced, Finishing
  <2>5. index'.run = run /\ index'.count = Len(rows)
    BY <2>1, <2>4
  <2>6. CompletedIsWhole'
    BY <2>1, <2>4, <2>5 DEF CompletedIsWhole, Whole
  <2> QED
    BY <1>3, <2>3, <2>6
<1>5. CASE Die
  <2>1. /\ pc # "idle"
        /\ \/ trials' = trials
           \/ writer /\ trials' = [trials EXCEPT !.footer = TRUE]
        /\ UNCHANGED <<run, manifest, best, index>>
    BY <1>5 DEF Die
  <2>2. /\ trials' = [run |-> trials.run, rows |-> trials.rows, footer |-> trials'.footer]
        /\ trials'.footer \in BOOLEAN
        /\ trials.footer => trials'.footer
    BY <2>1 DEF TypeOK
  <2>3. TypeOK'
    BY <1>2, <2>1, <2>2 DEF TypeOK, LoopOK, Steps
  <2>4. CompletedIsWhole'
    BY <2>1, <2>2 DEF CompletedIsWhole, Whole
  <2> QED
    BY <1>3, <2>3, <2>4
<1>6. CASE DieWriting
  <2>1. /\ UNCHANGED <<trials, index>>
        /\ \/ run' = run + 1 /\ manifest' = TornManifest /\ UNCHANGED best
           \/ pc = "best" /\ UNCHANGED <<run, manifest>>
           \/ manifest' = TornManifest /\ UNCHANGED <<run, best>>
    BY <1>6 DEF DieWriting
  <2>2. TornManifest = [run |-> 0, status |-> "torn"]
    BY DEF TornManifest, NoManifest
  <2>3. TypeOK'
    <3>1. run' \in Nat /\ manifest' \in [run : Nat, status : Statuses]
      BY <2>1, <2>2 DEF TypeOK, Statuses
    <3> QED
      BY <1>2, <2>1, <3>1 DEF TypeOK, LoopOK, Steps
  <2>4. CompletedIsWhole'
    BY <2>1, <2>2 DEF CompletedIsWhole, Announced, Whole, Finishing
  <2> QED
    BY <1>3, <2>3, <2>4
<1> QED
  BY <1>4, <1>5, <1>6

\* A reselection keeps the invariant.
LEMMA ReselectInv == ASSUME IInv, Reselect PROVE IInv'
<1> USE DEF IInv
<1>1. /\ manifest' \in {manifest, TornManifest} /\ pc = "idle"
      /\ UNCHANGED <<run, pc, loop, rows, buffer, writer, trials, best, index>>
  BY Zenon DEF Reselect, process
<1>2. TornManifest = [run |-> 0, status |-> "torn"]
  BY DEF TornManifest, NoManifest
<1>3. TypeOK' /\ NoRowLost' /\ Searching' /\ Announced'
  BY <1>1, <1>2 DEF TypeOK, NoRowLost, Searching, Announced, Finishing, Statuses
<1>4. CompletedIsWhole'
  BY <1>1, <1>2 DEF CompletedIsWhole, Whole
<1> QED
  BY <1>3, <1>4

\* The invariant holds before the optimization.
LEMMA InitInv == Init => IInv
<1> SUFFICES ASSUME Init PROVE IInv
  OBVIOUS
<1>1. LoopOK(loop) /\ IsSeq(<< >>)
  BY FreshIs, EmptyIsSeq DEF Init
<1>2. TypeOK
  BY <1>1 DEF Init, TypeOK, LoopOK, Steps, Statuses, NoManifest, NoTrials, NoIndex
<1>3. NoRowLost /\ Searching /\ Announced /\ CompletedIsWhole
  BY DEF Init, NoRowLost, Searching, Announced, CompletedIsWhole, Finishing, NoManifest, NoIndex
<1> QED
  BY <1>2, <1>3 DEF IInv

-----------------------------------------------------------------------------
(* The theorems                                                            *)

\* The invariant is inductive.
THEOREM InductiveInvariant == Spec => []IInv
<1>1. IInv /\ [Next]_vars => IInv'
  <2> SUFFICES ASSUME IInv, [Next]_vars PROVE IInv'
    OBVIOUS
  <2>1. CASE Begin \/ Register
    BY <2>1, StartInv
  <2>2. CASE SearchBatch \/ CrossValidate
    BY <2>2, EvaluateInv
  <2>3. CASE EmitRow
    BY <2>3, EmitInv
  <2>4. CASE EndOneShot \/ EndRound \/ EndSeeding \/ EndPolish \/ EndRung \/ EndCross
    BY <2>4, EndInv
  <2>5. CASE Select \/ CloseTrials \/ WriteBest \/ WriteManifest
    BY <2>5, FinishInv
  <2>6. CASE CompleteIndex \/ Die \/ DieWriting
    BY <2>6, StopInv
  <2>7. CASE Reselect
    BY <2>7, ReselectInv
  <2>8. CASE UNCHANGED vars
    BY <2>8
    DEF vars, process, disk, IInv, TypeOK, NoRowLost, Searching, Announced, CompletedIsWhole, Whole
  <2> QED
    BY <2>1, <2>2, <2>3, <2>4, <2>5, <2>6, <2>7, <2>8 DEF Next, Stopped
<1> QED
  BY <1>1, InitInv, PTL DEF Spec

\* What the file and the buffer hold is what the run has evaluated, in order
\* and without gaps (NoRowLost).
THEOREM NoRowEverLost == Spec => []NoRowLost
  BY InductiveInvariant, PTL DEF IInv

\* What says that a run is completed stands beside that run's whole files
\* (CompletedIsWhole).
THEOREM CompletedAlwaysWhole == Spec => []CompletedIsWhole
  BY InductiveInvariant, PTL DEF IInv

-----------------------------------------------------------------------------
(* Orders and sums over finite sets                                        *)

\* A strict total order of the members of S.
OrdersStrictly(R, S) ==
    /\ \A i \in S : <<i, i>> \notin R
    /\ \A i, j, k \in S : <<i, j>> \in R /\ <<j, k>> \in R => <<i, k>> \in R
    /\ \A i, j \in S : i # j => <<i, j>> \in R \/ <<j, i>> \in R

\* A strict weak order: what is not above anything in between is not above.
OrdersWeakly(A, S) ==
    /\ \A i, j \in S : <<i, j>> \in A => <<j, i>> \notin A
    /\ \A i, j, k \in S : <<i, j>> \notin A /\ <<j, k>> \notin A => <<i, k>> \notin A

\* The order in which Ranked puts the members of S that A orders weakly.
Stably(S, A) == {p \in S \X S : p \in A \/ (<<p[2], p[1]>> \notin A /\ p[1] < p[2])}

\* o is an enumeration of S in which none comes after one it is above.
Enumerates(o, S, A) ==
    /\ Cardinality(S) \in Nat /\ o \in [1..Cardinality(S) -> S]
    /\ \A k, l \in 1..Cardinality(S) : k < l => <<o[l], o[k]>> \notin A /\ o[k] # o[l]
    /\ \A i \in S : \E k \in 1..Cardinality(S) : o[k] = i

\* In a total order of n there is, for every k below n, one with k before it: by
\* counting, since no two have as many.
LEMMA PlaceTaken ==
    ASSUME NEW S, IsFiniteSet(S), NEW R, OrdersStrictly(R, S), NEW n \in 0..(Cardinality(S) - 1)
    PROVE  \E i \in S : Cardinality({j \in S : <<j, i>> \in R}) = n
<1> DEFINE Ahead(i) == {j \in S : <<j, i>> \in R}
           m == Cardinality(S)
           place == [i \in S |-> Cardinality(Ahead(i))]
<1>1. \A i \in S : Ahead(i) \in SUBSET S /\ i \notin Ahead(i)
  BY DEF OrdersStrictly
<1>2. \A i \in S : IsFiniteSet(Ahead(i)) /\ Cardinality(Ahead(i)) \in Nat
  BY <1>1, FS_Subset, FS_CardinalityType
<1>3. m \in Nat
  BY FS_CardinalityType
<1>4. ASSUME NEW i \in S, NEW j \in S, <<i, j>> \in R
      PROVE  Cardinality(Ahead(i)) < Cardinality(Ahead(j))
  <2>1. Ahead(i) \in SUBSET Ahead(j) /\ i \in Ahead(j) /\ i \notin Ahead(i)
    BY <1>1, <1>4 DEF OrdersStrictly
  <2>2. Cardinality(Ahead(i)) <= Cardinality(Ahead(j)) /\ Cardinality(Ahead(i)) # Cardinality(Ahead(j))
    BY <1>2, <2>1, FS_Subset
  <2> QED
    BY <1>2, <2>2
<1>5. \A i \in S : Cardinality(Ahead(i)) \in 0..(m - 1)
  <2> SUFFICES ASSUME NEW i \in S PROVE Cardinality(Ahead(i)) \in 0..(m - 1)
    OBVIOUS
  <2>1. Cardinality(Ahead(i)) <= m /\ Cardinality(Ahead(i)) # m
    BY <1>1, FS_Subset
  <2> QED
    BY <1>2, <1>3, <2>1
<1> HIDE DEF Ahead, m
<1>6. place \in [S -> 0..(m - 1)]
  BY <1>5
<1>7. \A i, j \in S : place[i] = place[j] => i = j
  <2> SUFFICES ASSUME NEW i \in S, NEW j \in S, place[i] = place[j], i # j PROVE FALSE
    OBVIOUS
  <2>1. <<i, j>> \in R \/ <<j, i>> \in R
    BY DEF OrdersStrictly
  <2>2. place[i] < place[j] \/ place[j] < place[i]
    BY <1>4, <2>1
  <2>3. place[i] \in Nat /\ place[j] \in Nat
    BY <1>2
  <2> HIDE DEF place
  <2> QED
    BY <2>2, <2>3
<1>8. place \in Injection(S, 0..(m - 1))
  BY <1>6, <1>7 DEF Injection, IsInjective
<1>9. IsFiniteSet(0..(m - 1)) /\ Cardinality(0..(m - 1)) = m
  BY <1>3, FS_Interval
<1>10. place \in Surjection(S, 0..(m - 1))
  <2> HIDE DEF place
  <2> QED
    BY <1>8, <1>9, FS_Injection DEF m
<1>11. PICK i \in S : place[i] = n
  <2>1. n \in 0..(m - 1)
    BY DEF m
  <2> HIDE DEF place
  <2> QED
    BY <1>10, <2>1 DEF Surjection
<1> QED
  BY <1>11 DEF Ahead

\* Ordered enumerates a finite set in its order.
LEMMA OrderedIs ==
    ASSUME NEW S, IsFiniteSet(S), NEW R, OrdersStrictly(R, S)
    PROVE  LET o == Ordered(S, R)
               n == Cardinality(S)
           IN  /\ n \in Nat /\ o \in [1..n -> S]
               /\ \A k, l \in 1..n : k < l => <<o[k], o[l]>> \in R
               /\ \A i \in S : \E k \in 1..n : o[k] = i
<1> DEFINE n == Cardinality(S)
           Rank(i) == Cardinality({j \in S : <<j, i>> \in R})
           o == Ordered(S, R)
<1>1. n \in Nat
  BY FS_CardinalityType
<1>2. o = [k \in 1..n |-> CHOOSE i \in S : Rank(i) = k - 1]
  BY DEF Ordered
<1>3. ASSUME NEW k \in 1..n PROVE o[k] \in S /\ Rank(o[k]) = k - 1
  <2>1. k - 1 \in 0..(n - 1)
    BY <1>1
  <2>2. \E i \in S : Rank(i) = k - 1
    BY <2>1, PlaceTaken
  <2>3. o[k] = CHOOSE i \in S : Rank(i) = k - 1
    BY <1>2
  <2> HIDE DEF Rank, o, n
  <2> QED
    BY <2>2, <2>3
<1>4. ASSUME NEW i \in S, NEW j \in S, <<i, j>> \in R PROVE Rank(i) < Rank(j)
  <2> DEFINE Ahead(k) == {l \in S : <<l, k>> \in R}
  <2>1. /\ Ahead(i) \in SUBSET Ahead(j) /\ i \in Ahead(j) /\ i \notin Ahead(i)
        /\ Ahead(i) \in SUBSET S /\ Ahead(j) \in SUBSET S
    BY <1>4 DEF OrdersStrictly
  <2>2. IsFiniteSet(Ahead(i)) /\ IsFiniteSet(Ahead(j))
    BY <2>1, FS_Subset
  <2> HIDE DEF Ahead
  <2>3. /\ Cardinality(Ahead(i)) \in Nat /\ Cardinality(Ahead(j)) \in Nat
        /\ Cardinality(Ahead(i)) <= Cardinality(Ahead(j))
        /\ Cardinality(Ahead(i)) # Cardinality(Ahead(j))
    BY <2>1, <2>2, FS_Subset, FS_CardinalityType
  <2>4. Cardinality(Ahead(i)) < Cardinality(Ahead(j))
    BY <2>3
  <2> QED
    BY <2>4 DEF Ahead
<1>5. \A i \in S : Rank(i) \in 0..(n - 1)
  <2> SUFFICES ASSUME NEW i \in S PROVE Rank(i) \in 0..(n - 1)
    OBVIOUS
  <2> DEFINE A == {j \in S : <<j, i>> \in R}
  <2>1. A \in SUBSET S /\ i \notin A
    BY DEF OrdersStrictly
  <2> HIDE DEF A
  <2>2. Cardinality(A) \in Nat /\ Cardinality(A) <= n /\ Cardinality(A) # n
    BY <2>1, FS_Subset, FS_CardinalityType
  <2>3. Cardinality(A) \in 0..(n - 1)
    BY <1>1, <2>2
  <2> QED
    BY <2>3 DEF A
<1> HIDE DEF Rank, n
<1>6. o \in [1..n -> S]
  BY <1>2, <1>3
<1> HIDE DEF o
<1>7. \A i, j \in S : i # j => <<i, j>> \in R \/ <<j, i>> \in R
  BY DEF OrdersStrictly
<1>8. \A k, l \in 1..n : k < l => <<o[k], o[l]>> \in R
  <2> SUFFICES ASSUME NEW k \in 1..n, NEW l \in 1..n, k < l PROVE <<o[k], o[l]>> \in R
    OBVIOUS
  <2>1. o[k] \in S /\ o[l] \in S /\ Rank(o[k]) = k - 1 /\ Rank(o[l]) = l - 1
    BY <1>3
  <2>2. o[k] # o[l] /\ ~(Rank(o[l]) < Rank(o[k]))
    BY <1>1, <2>1
  <2> QED
    BY <1>4, <1>7, <2>1, <2>2
<1>9. \A i \in S : \E k \in 1..n : o[k] = i
  <2> SUFFICES ASSUME NEW i \in S PROVE \E k \in 1..n : o[k] = i
    OBVIOUS
  <2> DEFINE k == Rank(i) + 1
  <2>1. k \in 1..n /\ k - 1 = Rank(i) /\ Rank(i) \in Int
    BY <1>1, <1>5
  <2> HIDE DEF k
  <2>2. o[k] \in S /\ Rank(o[k]) = Rank(i)
    BY <1>3, <2>1
  <2>3. ~(Rank(o[k]) < Rank(i)) /\ ~(Rank(i) < Rank(o[k]))
    BY <2>1, <2>2
  <2>4. o[k] = i
    BY <1>4, <1>7, <2>2, <2>3
  <2> QED
    BY <2>1, <2>4
<1> QED
  BY <1>1, <1>6, <1>8, <1>9 DEF o, n

\* Ranked enumerates a finite set so that none comes after one it is above.
LEMMA StablyIs ==
    ASSUME NEW S \in SUBSET Nat, IsFiniteSet(S), NEW A, OrdersWeakly(A, S)
    PROVE  Enumerates(Ordered(S, Stably(S, A)), S, A)
<1> DEFINE R == Stably(S, A)
<1>1. \A i, j \in S : <<i, j>> \in R <=> (<<i, j>> \in A \/ (<<j, i>> \notin A /\ i < j))
  BY DEF Stably
<1>2. R \subseteq S \X S
  BY DEF Stably
<1> HIDE DEF R
<1>3. \A i \in S : <<i, i>> \notin R
  BY <1>1 DEF OrdersWeakly
<1>4. \A i, j, k \in S : <<i, j>> \in R /\ <<j, k>> \in R => <<i, k>> \in R
  <2> SUFFICES ASSUME NEW i \in S, NEW j \in S, NEW k \in S, <<i, j>> \in R, <<j, k>> \in R
               PROVE  <<i, k>> \in R
    OBVIOUS
  <2>1. <<k, j>> \notin A /\ <<j, i>> \notin A
    BY <1>1 DEF OrdersWeakly
  <2>2. <<k, i>> \notin A
    BY <2>1 DEF OrdersWeakly
  <2>3. CASE i < j /\ j < k
    BY <1>1, <2>2, <2>3
  <2>4. CASE <<i, j>> \in A
    <3>1. <<i, k>> \in A
      BY <2>1, <2>4 DEF OrdersWeakly
    <3> QED
      BY <1>1, <3>1
  <2>5. CASE <<j, k>> \in A
    <3>1. <<i, k>> \in A
      BY <2>1, <2>5 DEF OrdersWeakly
    <3> QED
      BY <1>1, <3>1
  <2> QED
    BY <1>1, <2>3, <2>4, <2>5
<1>5. \A i, j \in S : i # j => <<i, j>> \in R \/ <<j, i>> \in R
  BY <1>1
<1>6. OrdersStrictly(R, S)
  BY <1>3, <1>4, <1>5 DEF OrdersStrictly
<1> DEFINE o == Ordered(S, R)
           n == Cardinality(S)
<1>7. /\ n \in Nat /\ o \in [1..n -> S]
      /\ \A k, l \in 1..n : k < l => <<o[k], o[l]>> \in R
      /\ \A i \in S : \E k \in 1..n : o[k] = i
  BY <1>6, OrderedIs
<1> HIDE DEF o, n
<1>8. \A k, l \in 1..n : k < l => <<o[l], o[k]>> \notin A /\ o[k] # o[l]
  <2> SUFFICES ASSUME NEW k \in 1..n, NEW l \in 1..n, k < l
               PROVE  <<o[l], o[k]>> \notin A /\ o[k] # o[l]
    OBVIOUS
  <2>1. o[k] \in S /\ o[l] \in S /\ <<o[k], o[l]>> \in R
    BY <1>7
  <2>2. <<o[l], o[k]>> \notin A
    BY <1>1, <2>1 DEF OrdersWeakly
  <2> QED
    BY <1>3, <2>1, <2>2
<1> QED
  BY <1>7, <1>8 DEF o, n, R, Enumerates

First(T) == CHOOSE x \in T : TRUE

\* What SumOver recurs on: h holds the sum of f over every subset of S.
Sums(h, S, f) ==
    h = [T \in SUBSET S |-> IF T = {} THEN 0 ELSE f[First(T)] + h[T \ {First(T)}]]

\* Taking an element out of a finite set leaves a smaller one.
LEMMA Smaller ==
    ASSUME NEW T, IsFiniteSet(T), NEW x \in T
    PROVE  /\ IsFiniteSet(T \ {x})
           /\ Cardinality(T) \in Nat /\ Cardinality(T \ {x}) \in Nat
           /\ Cardinality(T \ {x}) = Cardinality(T) - 1
<1>1. IsFiniteSet(T \ {x}) /\ Cardinality(T \ {x}) = Cardinality(T) - 1
  BY FS_RemoveElement
<1> QED
  BY <1>1, FS_CardinalityType

\* A family of subsets of a finite set has one from which no element can be
\* taken without leaving the family.
LEMMA MinimalExists ==
    ASSUME NEW S, IsFiniteSet(S), NEW F \in SUBSET SUBSET S, F # {}
    PROVE  \E T \in F : \A x \in T : T \ {x} \notin F
<1> DEFINE N == {Cardinality(T) : T \in F}
<1>1. \A T \in F : IsFiniteSet(T) /\ Cardinality(T) \in Nat
  BY FS_Subset, FS_CardinalityType
<1>2. N \in SUBSET Nat /\ N # {}
  BY <1>1
<1> HIDE DEF N
<1>3. PICK n \in N : \A k \in N : n <= k
  BY <1>2, LeastExists
<1>4. PICK T \in F : Cardinality(T) = n
  BY DEF N
<1>5. ASSUME NEW x \in T, T \ {x} \in F PROVE FALSE
  <2>1. Cardinality(T \ {x}) \in N
    BY <1>5 DEF N
  <2>2. Cardinality(T \ {x}) = n - 1 /\ n \in Nat
    BY <1>1, <1>4, Smaller
  <2> QED
    BY <1>3, <2>1, <2>2
<1> QED
  BY <1>5

\* The recursion of SumOver has a solution: on the sets of at most n elements for
\* every n, by the least n for which it has none.
LEMMA SumsExist == ASSUME NEW S, IsFiniteSet(S), NEW f PROVE \E h : Sums(h, S, f)
<1> DEFINE Upto(n) == {T \in SUBSET S : Cardinality(T) <= n}
           Step(h, T) == IF T = {} THEN 0 ELSE f[First(T)] + h[T \ {First(T)}]
           Known(n) == \E h : h = [T \in Upto(n) |-> Step(h, T)]
           Bad == {n \in Nat : ~Known(n)}
<1>1. ASSUME NEW n \in Nat PROVE Known(n)
  <2> SUFFICES ASSUME Bad # {} PROVE FALSE
    OBVIOUS
  <2>1. PICK m \in Bad : \A k \in Bad : m <= k
    BY LeastExists
  <2>2. m # 0
    <3> DEFINE h == [T \in Upto(0) |-> 0]
    <3>1. \A T \in Upto(0) : T = {}
      <4> TAKE T \in Upto(0)
      <4>1. IsFiniteSet(T) /\ Cardinality(T) \in Nat
        BY FS_Subset, FS_CardinalityType
      <4> QED
        BY <4>1, FS_EmptySet
    <3>2. h = [T \in Upto(0) |-> Step(h, T)]
      BY <3>1
    <3> QED
      BY <3>2
  <2>3. PICK h : h = [T \in Upto(m - 1) |-> Step(h, T)]
    <3>1. m - 1 \in Nat /\ ~(m <= m - 1)
      BY <2>2
    <3> HIDE DEF Known
    <3>2. Known(m - 1)
      BY <2>1, <3>1
    <3> QED
      BY <3>2 DEF Known
  <2> DEFINE g == [T \in Upto(m) |-> Step(h, T)]
  <2>4. \A U \in Upto(m - 1) : U \in Upto(m) /\ g[U] = h[U]
    <3> TAKE U \in Upto(m - 1)
    <3>1. U \in Upto(m)
      BY FS_Subset, FS_CardinalityType
    <3>2. h[U] = Step(h, U)
      BY <2>3
    <3> QED
      BY <3>1, <3>2
  <2>5. ASSUME NEW T \in Upto(m) PROVE Step(h, T) = Step(g, T)
    <3>1. CASE T = {}
      BY <3>1
    <3>2. CASE T # {}
      <4>1. First(T) \in T
        BY <3>2 DEF First
      <4>2. T \ {First(T)} \in Upto(m - 1)
        <5>1. IsFiniteSet(T) /\ Cardinality(T) <= m
          BY FS_Subset
        <5>2. Cardinality(T) \in Nat /\ Cardinality(T \ {First(T)}) = Cardinality(T) - 1
          BY <4>1, <5>1, Smaller
        <5> QED
          BY <5>1, <5>2
      <4> QED
        BY <2>4, <4>2
    <3> QED
      BY <3>1, <3>2
  <2>6. g = [T \in Upto(m) |-> Step(g, T)]
    <3> DEFINE e == [T \in Upto(m) |-> Step(g, T)]
    <3>1. \A T \in Upto(m) : g[T] = e[T]
      BY <2>5
    <3> QED
      BY <3>1
  <2> QED
    BY <2>1, <2>6
<1>2. Cardinality(S) \in Nat
  BY FS_CardinalityType
<1>3. Upto(Cardinality(S)) = SUBSET S
  BY FS_Subset
<1> QED
  BY <1>1, <1>2, <1>3 DEF Sums

\* SumOver is the value of such a solution at the whole set.
LEMMA SumOverIs ==
    ASSUME NEW S, IsFiniteSet(S), NEW f
    PROVE  \E h : Sums(h, S, f) /\ SumOver(S, f) = h[S]
<1> DEFINE h == CHOOSE h : Sums(h, S, f)
<1>1. Sums(h, S, f)
  BY SumsExist
<1>2. SumOver(S, f) = h[S]
  BY DEF SumOver, Sums, First
<1> QED
  BY <1>1, <1>2

\* A sum of integers is one.
LEMMA SumsType ==
    ASSUME NEW S, IsFiniteSet(S), NEW f, \A x \in S : f[x] \in Int, NEW h, Sums(h, S, f),
           NEW T \in SUBSET S
    PROVE  h[T] \in Int
<1> DEFINE Bad == {U \in SUBSET S : h[U] \notin Int}
<1> SUFFICES ASSUME Bad # {} PROVE FALSE
  OBVIOUS
<1>1. PICK U \in Bad : \A y \in U : U \ {y} \notin Bad
  <2>1. Bad \in SUBSET SUBSET S
    OBVIOUS
  <2> HIDE DEF Bad
  <2> QED
    BY <2>1, MinimalExists
<1>2. U # {}
  BY <1>1 DEF Sums
<1> DEFINE x == First(U)
<1>3. x \in U
  BY <1>2 DEF First
<1>4. h[U] = f[x] + h[U \ {x}]
  BY <1>2 DEF Sums
<1>5. h[U \ {x}] \in Int
  BY <1>1, <1>3
<1> QED
  BY <1>1, <1>3, <1>4, <1>5

\* The same of SumOver itself.
LEMMA SumType ==
    ASSUME NEW S, IsFiniteSet(S), NEW f, \A x \in S : f[x] \in Int
    PROVE  SumOver(S, f) \in Int
  BY SumOverIs, SumsType

\* The greater of two numbers, and the lesser.
LEMMA MinMax ==
    ASSUME NEW a \in Int, NEW b \in Int
    PROVE  /\ Min({a, b}) = IF a <= b THEN a ELSE b
           /\ Max({a, b}) = IF a >= b THEN a ELSE b
<1> DEFINE lo == IF a <= b THEN a ELSE b
           hi == IF a >= b THEN a ELSE b
<1>1. /\ lo \in {a, b} /\ \A x \in {a, b} : lo <= x
      /\ \A y \in {a, b} : (\A x \in {a, b} : y <= x) => y = lo
  OBVIOUS
<1>2. /\ hi \in {a, b} /\ \A x \in {a, b} : hi >= x
      /\ \A y \in {a, b} : (\A x \in {a, b} : y >= x) => y = hi
  OBVIOUS
<1> HIDE DEF lo, hi
<1>3. Min({a, b}) = lo
  BY <1>1 DEF Min
<1>4. Max({a, b}) = hi
  BY <1>2 DEF Max
<1> QED
  BY <1>3, <1>4 DEF lo, hi

\* A function on the numbers up to n that G gives from a, step by step.
Recurses(f, a, G, n) == f = [i \in 0..n |-> IF i = 0 THEN a ELSE G[<<f[i - 1], i>>]]

\* A recursion over numbers up to n whose steps stay in X has a solution.
LEMMA RecursionExists ==
    ASSUME NEW X, NEW a \in X, NEW G \in [X \X Nat -> X], NEW n \in Nat
    PROVE  \E f \in [0..n -> X] : Recurses(f, a, G, n)
<1> DEFINE Solves(f, m) == f = [i \in 0..m |-> IF i = 0 THEN a ELSE G[<<f[i - 1], i>>]]
           Bad == {m \in Nat : ~ \E f \in [0..m -> X] : Solves(f, m)}
<1> SUFFICES ASSUME Bad # {} PROVE FALSE
  BY DEF Recurses
<1>1. PICK m \in Bad : \A k \in Bad : m <= k
  BY LeastExists
<1>2. m # 0
  <2> DEFINE f == [i \in 0..0 |-> a]
  <2>1. f \in [0..0 -> X] /\ Solves(f, 0)
    OBVIOUS
  <2> QED
    BY <2>1
<1>3. PICK f \in [0..(m - 1) -> X] : Solves(f, m - 1)
  <2>1. m - 1 \in Nat /\ ~(m <= m - 1)
    BY <1>2
  <2> HIDE DEF Solves
  <2> QED
    BY <1>1, <2>1
<1> DEFINE last == G[<<f[m - 1], m>>]
           g == [i \in 0..m |-> IF i = m THEN last ELSE f[i]]
<1>4. m \in Nat \ {0} /\ f[m - 1] \in X
  BY <1>2, <1>3
<1>5. last \in X
  BY <1>4
<1>6. \A i \in 0..(m - 1) : g[i] = f[i] /\ f[i] \in X
  BY <1>3, <1>4
<1>7. g[m] = last
  BY <1>4
<1> HIDE DEF last
<1>8. g \in [0..m -> X]
  BY <1>3, <1>5
<1>9. \A i \in 0..(m - 1) : f[i] = IF i = 0 THEN a ELSE G[<<f[i - 1], i>>]
  BY <1>3
<1>10. \A i \in 0..m : g[i] = IF i = 0 THEN a ELSE G[<<g[i - 1], i>>]
  <2> HIDE DEF g
  <2> TAKE i \in 0..m
  <2>1. CASE i = m
    <3>1. i # 0 /\ g[i - 1] = f[m - 1]
      BY <1>4, <1>6, <2>1
    <3> QED
      BY <1>7, <2>1, <3>1 DEF last
  <2>2. CASE i # m
    <3>1. i \in 0..(m - 1) /\ (i # 0 => i - 1 \in 0..(m - 1))
      BY <1>4, <2>2
    <3> QED
      BY <1>6, <1>9, <3>1
  <2> QED
    BY <2>1, <2>2
<1> HIDE DEF g
<1>11. Solves(g, m)
  BY <1>8, <1>10
<1> QED
  BY <1>8, <1>11 DEF Recurses

\* Multiplication by a natural number keeps the order.
LEMMA Times ==
    ASSUME NEW a \in Nat, NEW x \in Int, NEW y \in Int, x <= y
    PROVE  a * x <= a * y /\ a * x \in Int /\ a * y \in Int
<1>1. y - x \in Nat
  OBVIOUS
<1>2. a * (y - x) >= 0
  BY <1>1
<1> QED
  BY <1>2

\* What division leaves.
LEMMA Divided ==
    ASSUME NEW x \in Nat, NEW b \in Nat \ {0}
    PROVE  /\ x \div b \in Nat /\ x % b \in 0..(b - 1)
           /\ x = b * (x \div b) + (x % b)
  OBVIOUS

\* Rounding up never gives more than there was.
LEMMA CeilingIs ==
    ASSUME NEW s \in Nat \ {0}
    PROVE  Ceiling(s, Eta) \in Nat /\ Ceiling(s, Eta) <= s
<1> DEFINE x == s + Eta - 1
           q == x \div Eta
<1>1. Eta \in Nat /\ Eta > 1 /\ x \in Nat
  BY SizesAssumption
<1>2. q \in Nat /\ x % Eta \in Nat /\ x = Eta * q + (x % Eta)
  <2> HIDE DEF x
  <2>1. Eta \in Nat \ {0} /\ x \in Nat
    BY <1>1
  <2>2. /\ x \div Eta \in Nat /\ x % Eta \in 0..(Eta - 1)
        /\ x = Eta * (x \div Eta) + (x % Eta)
    BY <2>1, Divided, Zenon
  <2>3. x % Eta \in Nat
    BY <1>1, <2>2
  <2> QED
    BY <2>2, <2>3
<1>3. ASSUME q >= s + 1 PROVE FALSE
  <2> HIDE DEF q
  <2>1. Eta * (s + 1) <= Eta * q /\ Eta * (s + 1) = Eta * s + Eta
    BY <1>1, <1>2, <1>3, Times
  <2>2. Eta * q \in Int /\ Eta * s \in Nat
    BY <1>1, <1>2
  <2> HIDE DEF x
  <2>3. Eta * q <= x
    BY <1>1, <1>2, <2>2
  <2>4. Eta * s + Eta <= s + Eta - 1
    BY <1>1, <2>1, <2>2, <2>3 DEF x
  <2>5. s * 1 <= s * Eta /\ s * Eta = Eta * s
    BY <1>1, Times
  <2> QED
    BY <1>1, <2>2, <2>4, <2>5
<1> QED
  BY <1>2, <1>3 DEF Ceiling

\* Uncapped budgets grow past every bound.
LEMMA UncappedGrows == ASSUME NEW r \in Nat PROVE Uncapped[r] \in Nat /\ Uncapped[r] > r
<1> DEFINE Bad == {k \in Nat : ~(Uncapped[k] \in Nat /\ Uncapped[k] > k)}
<1> SUFFICES ASSUME Bad # {} PROVE FALSE
  OBVIOUS
<1>1. PICK k \in Bad : \A j \in Bad : k <= j
  BY LeastExists
<1>2. k # 0
  BY UncappedIs, SizesAssumption
<1>3. Uncapped[k - 1] \in Nat /\ Uncapped[k - 1] > k - 1 /\ Uncapped[k] = Uncapped[k - 1] * Eta
  <2>1. k - 1 \in Nat /\ k - 1 \notin Bad
    BY <1>1, <1>2
  <2> QED
    BY <1>2, <2>1, UncappedIs
<1>4. PICK u \in Nat : u = Uncapped[k - 1]
  BY <1>3
<1>5. u > k - 1 /\ Uncapped[k] = u * Eta
  BY <1>3, <1>4
<1>6. u * Eta \in Nat /\ u * 2 <= u * Eta
  BY Times, SizesAssumption
<1>7. k \in Nat /\ u * 2 > k
  BY <1>2, <1>5
<1>8. u * Eta > k
  <2> PICK w : w = u * Eta
    OBVIOUS
  <2> QED
    BY <1>6, <1>7
<1> QED
  BY <1>1, <1>5, <1>6, <1>8

\* There are rungs, until a budget is all the folds.
LEMMA RungCountIs == RungCount \in Nat \ {0}
<1> DEFINE Enough == {k \in Nat : Uncapped[k] >= NFolds}
<1>1. NFolds \in Nat /\ NFolds > 1
  BY SizesAssumption
<1>2. NFolds \in Enough /\ NFolds - 1 \in Enough
  BY <1>1, UncappedGrows
<1>3. PICK k \in Enough : \A j \in Enough : k <= j
  BY <1>2, LeastExists
<1> DEFINE n == k + 1
<1>4. k \in Nat /\ k <= NFolds - 1
  BY <1>2, <1>3
<1>5. n \in 1..(NFolds + 1) /\ n - 1 = k
  BY <1>1, <1>4
<1>6. Uncapped[n - 1] >= NFolds
  BY <1>3, <1>5
<1>7. \A j \in 1..(n - 1) : Uncapped[j - 1] < NFolds
  <2> TAKE j \in 1..(n - 1)
  <2>1. j - 1 \in Nat /\ ~(k <= j - 1)
    BY <1>4, <1>5 DEF Recurses
  <2>2. j - 1 \notin Enough
    BY <1>3, <2>1
  <2> QED
    BY <1>1, <2>1, <2>2, UncappedGrows
<1> HIDE DEF n, Enough
<1>8. RungCount \in 1..(NFolds + 1)
  BY <1>5, <1>6, <1>7 DEF RungCount
<1> QED
  BY <1>8

\* A rung runs on some folds, and on no more than there are.
LEMMA BudgetIs == ASSUME NEW r \in Nat PROVE Budget(r) \in 1..NFolds
  BY UncappedGrows, SizesAssumption DEF Budget

\* The survivors, from the first rung on, are fewer and fewer but never none.
LEMMA SurvivorsAre ==
    /\ Survivors[0] = InitialCandidates
    /\ \A r \in 0..RungCount : Survivors[r] \in Nat \ {0}
    /\ \A r \in 1..RungCount : Survivors[r] <= Survivors[r - 1]
<1> DEFINE N == Nat \ {0}
           Next2(s) == Max({1, Ceiling(s, Eta)})
           G == [p \in N \X Nat |-> Next2(p[1])]
<1>1. \A s \in N : Next2(s) \in N /\ Next2(s) <= s
  BY CeilingIs, MinMax, SMTT(30)
<1> HIDE DEF Next2
<1>2. G \in [N \X Nat -> N]
  BY <1>1
<1>3. InitialCandidates \in N /\ RungCount \in Nat
  BY SizesAssumption, RungCountIs
<1> HIDE DEF N, G
<1>4. PICK f \in [0..RungCount -> N] : Recurses(f, InitialCandidates, G, RungCount)
  BY <1>2, <1>3, RecursionExists
<1>5. \A i \in 0..RungCount : i # 0 => f[i - 1] \in N /\ G[<<f[i - 1], i>>] = Next2(f[i - 1])
  <2> TAKE i \in 0..RungCount
  <2> HAVE i # 0
  <2>1. i - 1 \in 0..RungCount /\ i \in Nat
    BY <1>3
  <2> QED
    BY <1>4, <2>1 DEF G
<1>6. f = [i \in 0..RungCount |-> IF i = 0 THEN InitialCandidates ELSE Next2(f[i - 1])]
  BY <1>4, <1>5 DEF Recurses
<1>7. \E g : g = [i \in 0..RungCount |-> IF i = 0 THEN InitialCandidates ELSE Next2(g[i - 1])]
  BY <1>6
<1>8. Survivors = CHOOSE g : g = [i \in 0..RungCount |-> IF i = 0 THEN InitialCandidates ELSE Next2(g[i - 1])]
  BY DEF Survivors, Next2
<1>9. Survivors = [i \in 0..RungCount |-> IF i = 0 THEN InitialCandidates ELSE Next2(Survivors[i - 1])]
  BY <1>7, <1>8
<1>10. Survivors[0] = InitialCandidates
  BY <1>3, <1>9
<1>11. \A i \in 1..RungCount : Survivors[i] = Next2(Survivors[i - 1])
  BY <1>3, <1>9
<1>12. \A i \in 0..RungCount : Survivors[i] \in N
  <2> DEFINE Bad == {i \in 0..RungCount : Survivors[i] \notin N}
  <2> SUFFICES ASSUME Bad # {} PROVE FALSE
    OBVIOUS
  <2>1. PICK k \in Bad : \A j \in Bad : k <= j
    <3>1. Bad \in SUBSET Nat
      BY <1>3
    <3> QED
      BY <3>1, LeastExists
  <2>2. k # 0
    BY <1>3, <1>10
  <2>3. k \in 1..RungCount /\ k - 1 \in 0..RungCount /\ ~(k <= k - 1)
    BY <1>3, <2>2
  <2>4. Survivors[k - 1] \in N
    BY <2>1, <2>3
  <2> QED
    BY <1>1, <1>11, <2>1, <2>3, <2>4
<1>13. \A i \in 1..RungCount : Survivors[i] <= Survivors[i - 1]
  <2> TAKE i \in 1..RungCount
  <2>1. i - 1 \in 0..RungCount
    BY <1>3
  <2> QED
    BY <1>1, <1>11, <1>12, <2>1
<1> QED
  BY <1>10, <1>12, <1>13 DEF N

\* What is planned before a rung: the rungs before it.
LEMMA PlannedBeforeIs ==
    /\ PlannedBefore[0] = 0
    /\ \A r \in 0..RungCount : PlannedBefore[r] \in Nat
    /\ \A r \in 1..RungCount :
          PlannedBefore[r] = PlannedBefore[r - 1] + Survivors[r - 1] * Budget(r - 1)
<1> DEFINE Asked(i) == Survivors[i] * Budget(i)
           G == [p \in Nat \X Nat |-> IF p[2] \in 1..RungCount THEN p[1] + Asked(p[2] - 1) ELSE 0]
<1>1. RungCount \in Nat
  BY RungCountIs
<1>2. \A i \in 1..RungCount : Asked(i - 1) \in Nat
  <2> TAKE i \in 1..RungCount
  <2>1. i - 1 \in 0..RungCount /\ i - 1 \in Nat
    BY <1>1
  <2>2. Survivors[i - 1] \in Nat \ {0} /\ Budget(i - 1) \in Nat \ {0}
    BY <2>1, SurvivorsAre, BudgetIs
  <2> QED
    BY <2>2, Multiplied
<1> HIDE DEF Asked
<1>3. G \in [Nat \X Nat -> Nat]
  BY <1>2
<1> HIDE DEF G
<1>4. PICK f \in [0..RungCount -> Nat] : Recurses(f, 0, G, RungCount)
  BY <1>1, <1>3, RecursionExists
<1>5. \A i \in 0..RungCount : i # 0 => G[<<f[i - 1], i>>] = f[i - 1] + Asked(i - 1)
  <2> TAKE i \in 0..RungCount
  <2> HAVE i # 0
  <2>1. i - 1 \in 0..RungCount /\ i \in 1..RungCount /\ i \in Nat
    BY <1>1
  <2>2. f[i - 1] \in Nat
    BY <1>4, <2>1
  <2> QED
    BY <2>1, <2>2 DEF G
<1>6. f = [i \in 0..RungCount |-> IF i = 0 THEN 0 ELSE f[i - 1] + Asked(i - 1)]
  BY <1>4, <1>5 DEF Recurses
<1>7. \E g : g = [i \in 0..RungCount |-> IF i = 0 THEN 0 ELSE g[i - 1] + Asked(i - 1)]
  BY <1>6
<1>8. PlannedBefore = CHOOSE g : g = [i \in 0..RungCount |-> IF i = 0 THEN 0 ELSE g[i - 1] + Asked(i - 1)]
  BY DEF PlannedBefore, Asked
<1>9. PlannedBefore = [i \in 0..RungCount |-> IF i = 0 THEN 0 ELSE PlannedBefore[i - 1] + Asked(i - 1)]
  BY <1>7, <1>8
<1>10. PlannedBefore[0] = 0
  BY <1>1, <1>9
<1>11. \A i \in 1..RungCount : PlannedBefore[i] = PlannedBefore[i - 1] + Asked(i - 1)
  BY <1>1, <1>9
<1>12. \A i \in 0..RungCount : PlannedBefore[i] \in Nat
  <2> DEFINE Bad == {i \in 0..RungCount : PlannedBefore[i] \notin Nat}
  <2> SUFFICES ASSUME Bad # {} PROVE FALSE
    OBVIOUS
  <2>1. PICK k \in Bad : \A j \in Bad : k <= j
    <3>1. Bad \in SUBSET Nat
      BY <1>1
    <3> QED
      BY <3>1, LeastExists
  <2>2. k # 0
    BY <1>1, <1>10
  <2>3. k \in 1..RungCount /\ k - 1 \in 0..RungCount /\ ~(k <= k - 1)
    BY <1>1, <2>2
  <2>4. PlannedBefore[k - 1] \in Nat
    BY <2>1, <2>3
  <2> QED
    BY <1>2, <1>11, <2>1, <2>3, <2>4
<1> QED
  BY <1>10, <1>11, <1>12 DEF Asked

-----------------------------------------------------------------------------
(* The search: what the batches, the rows and the trajectories hold        *)

Halving == method = "successive_halving"
Polishing == method = "lhs_polish"
Training == pc \in {"ask", "emit"} /\ loop.fold > 0
Crossing == pc = "cross" \/ (pc = "emit" /\ loop.fold = 0)
Emitting == IF pc = "emit" THEN 1 ELSE 0

Plans == [params : Params, fold : Folds, slice : Slices]
Evaluations ==
    {e \in [params : Params, fold : Folds, slice : Slices, m : Int, acc : BOOLEAN] :
        e.acc => e.m > Clamped}
Trials ==
    {r \in [id : Nat, round : Nat, params : Params, fold : Folds, slice : Slices,
            m : Int, acc : BOOLEAN] : r.acc => r.m > Clamped}
Trajectories ==
    {t \in [at : Params, step : Nat, row : Trials, active : BOOLEAN] : t.row.acc}

\* A key orders weakly.
LEMMA KeyOrders ==
    ASSUME NEW S, NEW f, \A i \in S : f[i] \in Int
    PROVE  OrdersWeakly({p \in S \X S : f[p[1]] > f[p[2]]}, S)
<1> DEFINE A == {p \in S \X S : f[p[1]] > f[p[2]]}
<1>1. \A i, j \in S : <<i, j>> \in A <=> f[i] > f[j]
  OBVIOUS
<1> HIDE DEF A
<1>2. \A i, j \in S : <<i, j>> \in A => <<j, i>> \notin A
  BY <1>1
<1>3. \A i, j, k \in S : <<i, j>> \notin A /\ <<j, k>> \notin A => <<i, k>> \notin A
  BY <1>1
<1>4. OrdersWeakly(A, S)
  BY <1>2, <1>3 DEF OrdersWeakly
<1> QED
  BY <1>4 DEF A

\* The numbers up to n.
LEMMA Upto == ASSUME NEW n \in Nat PROVE IsFiniteSet(1..n) /\ Cardinality(1..n) = n
<1>1. /\ IsFiniteSet(1..n)
      /\ Cardinality(1..n) = IF 1 > n THEN 0 ELSE n - 1 + 1
  BY FS_Interval
<1>2. CASE n = 0
  BY <1>1, <1>2
<1>3. CASE n # 0
  BY <1>1, <1>3
<1> QED
  BY <1>2, <1>3

\* The domain of a sequence is a finite set of numbers.
LEMMA Places ==
    ASSUME NEW X, NEW s \in Seq(X)
    PROVE  /\ Len(s) \in Nat /\ DOMAIN s = 1..Len(s) /\ DOMAIN s \in SUBSET Nat
           /\ IsFiniteSet(DOMAIN s) /\ Cardinality(DOMAIN s) = Len(s)
           /\ \A i \in 1..Len(s) : s[i] \in X
<1>1. Len(s) \in Nat /\ DOMAIN s = 1..Len(s) /\ \A i \in 1..Len(s) : s[i] \in X
  OBVIOUS
<1>2. IsFiniteSet(1..Len(s)) /\ Cardinality(1..Len(s)) = Len(s)
  BY <1>1, Upto
<1> QED
  BY <1>1, <1>2

\* A function on the numbers up to n is a sequence.
LEMMA Sequence ==
    ASSUME NEW X, NEW n \in Nat, NEW f, DOMAIN f = 1..n, f = [i \in 1..n |-> f[i]],
           \A i \in 1..n : f[i] \in X
    PROVE  f \in Seq(X) /\ Len(f) = n
  OBVIOUS

\* A prefix of a sequence.
LEMMA PrefixIs ==
    ASSUME NEW X, NEW s \in Seq(X), NEW n \in Nat
    PROVE  /\ Prefix(s, n) \in Seq(X)
           /\ Len(Prefix(s, n)) = IF n <= Len(s) THEN n ELSE Len(s)
           /\ \A i \in DOMAIN Prefix(s, n) : i \in DOMAIN s /\ Prefix(s, n)[i] = s[i]
<1> DEFINE k == Min({n, Len(s)})
           p == [i \in 1..k |-> s[i]]
<1>1. Len(s) \in Nat /\ DOMAIN s = 1..Len(s) /\ \A i \in 1..Len(s) : s[i] \in X
  OBVIOUS
<1>2. k = IF n <= Len(s) THEN n ELSE Len(s)
  BY <1>1, MinMax
<1> HIDE DEF k
<1> PICK l \in Nat : l = Len(s)
  BY <1>1
<1>3. k \in Nat /\ k <= Len(s)
  BY <1>2
<1>4. p \in Seq(X) /\ Len(p) = k /\ DOMAIN p = 1..k
  BY <1>1, <1>3
<1>5. Prefix(s, n) = p
  BY DEF Prefix, k
<1> QED
  BY <1>1, <1>2, <1>3, <1>4, <1>5

\* The place of an evaluation in a grid of parameters and folds.
LEMMA InGrid ==
    ASSUME NEW a \in Nat, NEW b \in Nat \ {0}, NEW i \in 1..(a * b)
    PROVE  ((i - 1) \div b) + 1 \in 1..a /\ ((i - 1) % b) + 1 \in 1..b
<1> DEFINE x == i - 1
           q == x \div b
           r == x % b
<1>1. x \in Nat /\ a * b \in Nat /\ x < a * b
  OBVIOUS
<1> HIDE DEF x
<1>2. q \in Nat /\ r \in 0..(b - 1) /\ x = b * q + r
  BY <1>1, Divided, Zenon
<1> HIDE DEF q, r
<1>3. ASSUME q >= a PROVE FALSE
  <2>1. b * a <= b * q /\ b * a = a * b
    BY <1>2, <1>3, Times
  <2>2. b * q \in Int
    BY <1>2
  <2> QED
    BY <1>1, <1>2, <2>1, <2>2
<1>4. q + 1 \in 1..a /\ r + 1 \in 1..b
  BY <1>2, <1>3
<1> QED
  BY <1>4 DEF x, q, r

\* A grid of plans.
LEMMA GridIs ==
    ASSUME NEW ps \in Seq(Params), NEW folds \in 1..NFolds, NEW slice \in Slices
    PROVE  LET g == Grid(ps, folds, slice)
           IN  /\ g \in Seq(Plans) /\ Len(g) = Len(ps) * folds /\ Len(ps) * folds \in Nat
               /\ \A i \in DOMAIN g : g[i].slice = slice
<1> DEFINE n == Len(ps) * folds
           P(i) == Planned(ps[((i - 1) \div folds) + 1], ((i - 1) % folds) + 1, slice)
           g == [i \in 1..n |-> P(i)]
<1>1. Len(ps) \in Nat /\ folds \in Nat \ {0} /\ NFolds \in Nat
  BY SizesAssumption
<1>2. n \in Nat
  BY <1>1
<1>3. ASSUME NEW i \in 1..n PROVE P(i) \in Plans /\ P(i).slice = slice
  <2> DEFINE w == ((i - 1) \div folds) + 1
             f == ((i - 1) % folds) + 1
  <2>1. w \in 1..Len(ps) /\ f \in 1..folds
    BY <1>1, InGrid
  <2> HIDE DEF w, f
  <2>2. ps[w] \in Params /\ f \in Folds
    BY <1>1, <2>1 DEF Folds
  <2>3. P(i) = [params |-> ps[w], fold |-> f, slice |-> slice]
    BY DEF Planned, w, f
  <2> QED
    BY <2>2, <2>3 DEF Plans
<1> HIDE DEF n, P
<1>4. g \in Seq(Plans) /\ Len(g) = n /\ DOMAIN g = 1..n /\ \A i \in 1..n : g[i].slice = slice
  BY <1>2, <1>3
<1>5. Grid(ps, folds, slice) = g
  BY DEF Grid, n, P
<1> QED
  BY <1>2, <1>4, <1>5 DEF n

\* The active trajectories, in their order.
LEMMA ActiveIs ==
    ASSUME NEW X, loop.trail \in Seq(X)
    PROVE  LET n == Len(Active)
           IN  /\ n \in Nat /\ n <= Len(loop.trail) /\ DOMAIN Active = 1..n
               /\ \A k \in 1..n : Active[k] \in DOMAIN loop.trail /\ loop.trail[Active[k]].active
               /\ \A k, l \in 1..n : k # l => Active[k] # Active[l]
               /\ \A i \in DOMAIN loop.trail : loop.trail[i].active => \E k \in 1..n : Active[k] = i
<1> DEFINE D == DOMAIN loop.trail
           S == {i \in D : loop.trail[i].active}
           A == {p \in S \X S : p[1] < p[2]}
           n == Cardinality(S)
<1>1. D \in SUBSET Nat /\ IsFiniteSet(D) /\ Cardinality(D) = Len(loop.trail)
  BY Places
<1>2. S \in SUBSET Nat /\ S \in SUBSET D
  BY <1>1
<1>3. \A i \in S : loop.trail[i].active
  OBVIOUS
<1>4. \A i \in D : loop.trail[i].active => i \in S
  OBVIOUS
<1> HIDE DEF S
<1>5. IsFiniteSet(S) /\ n <= Len(loop.trail)
  BY <1>1, <1>2, FS_Subset
<1>6. OrdersWeakly(A, S)
  <2>1. \A i, j \in S : <<i, j>> \in A <=> i < j
    OBVIOUS
  <2> HIDE DEF A
  <2>2. \A i, j \in S : <<i, j>> \in A => <<j, i>> \notin A
    BY <1>2, <2>1
  <2>3. \A i, j, k \in S : <<i, j>> \notin A /\ <<j, k>> \notin A => <<i, k>> \notin A
    BY <1>2, <2>1
  <2> QED
    BY <2>2, <2>3 DEF OrdersWeakly
<1>7. Active = Ordered(S, Stably(S, A))
  <2>1. Active = Ordered(S, {p \in S \X S : p[1] < p[2] \/ (~(p[2] < p[1]) /\ p[1] < p[2])})
    BY DEF Active, Ranked, S
  <2>2. Stably(S, A) = {p \in S \X S : p[1] < p[2] \/ (~(p[2] < p[1]) /\ p[1] < p[2])}
    BY DEF Stably
  <2> QED
    BY <2>1, <2>2
<1> HIDE DEF A
<1>8. /\ n \in Nat /\ Active \in [1..n -> S]
      /\ \A k, l \in 1..n : k < l => Active[k] # Active[l]
      /\ \A i \in S : \E k \in 1..n : Active[k] = i
  <2>1. Enumerates(Active, S, A)
    BY <1>2, <1>5, <1>6, <1>7, StablyIs
  <2> QED
    BY <2>1 DEF Enumerates
<1> HIDE DEF n
<1>9. Len(Active) = n /\ DOMAIN Active = 1..n
  BY <1>8
<1>10. \A k, l \in 1..n : k # l => Active[k] # Active[l]
  BY <1>8
<1>11. \A k \in 1..n : Active[k] \in D /\ loop.trail[Active[k]].active
  BY <1>2, <1>3, <1>8
<1> QED
  BY <1>4, <1>5, <1>8, <1>9, <1>10, <1>11 DEF n

\* Probes are clipped to the dimension.
LEMMA ProbesAre ==
    ASSUME NEW t, t.at \in Params, t.step \in Nat
    PROVE  \A j \in 1..2 : Probes(t)[j] \in Params
<1> PICK a \in Params : a = t.at
  OBVIOUS
<1> PICK s \in Nat : s = t.step
  OBVIOUS
<1>1. NParams \in Nat /\ a \in Nat /\ 1 <= a /\ a <= NParams
  BY SizesAssumption DEF Params
<1>2. /\ Min({NParams, a + s}) = IF NParams <= a + s THEN NParams ELSE a + s
      /\ Max({1, a - s}) = IF 1 >= a - s THEN 1 ELSE a - s
  <2>1. a + s \in Int /\ a - s \in Int
    BY <1>1
  <2> PICK hi \in Int : hi = a + s
    BY <2>1
  <2> PICK lo \in Int : lo = a - s
    BY <2>1
  <2>2. Min({NParams, hi}) = IF NParams <= hi THEN NParams ELSE hi
    <3>1. NParams \in Int
      BY <1>1
    <3> QED
      BY <3>1, MinMax
  <2>3. Max({1, lo}) = IF 1 >= lo THEN 1 ELSE lo
    <3>1. 1 \in Int
      OBVIOUS
    <3> QED
      BY <3>1, MinMax
  <2> QED
    BY <2>2, <2>3
<1>3. Min({NParams, a + s}) \in Params /\ Max({1, a - s}) \in Params
  BY <1>1, <1>2 DEF Params
<1>4. Probes(t) = << Min({NParams, a + s}), Max({1, a - s}) >>
  BY DEF Probes
<1> QED
  BY <1>3, <1>4

\* Parameters tried on the fold.
LEMMA OnFoldIs ==
    ASSUME NEW n \in Nat, NEW ps \in [1..n -> Params], loop.fold \in Folds
    PROVE  /\ OnFold(ps) \in Seq(Plans) /\ Len(OnFold(ps)) = n
           /\ \A i \in 1..n : OnFold(ps)[i].slice = "train" /\ OnFold(ps)[i].fold = loop.fold
<1>1. OnFold(ps) = [i \in 1..n |-> Planned(ps[i], loop.fold, "train")]
  BY DEF OnFold
<1>2. /\ DOMAIN OnFold(ps) = 1..n /\ OnFold(ps) = [i \in 1..n |-> OnFold(ps)[i]]
      /\ \A i \in 1..n : OnFold(ps)[i] = [params |-> ps[i], fold |-> loop.fold, slice |-> "train"]
  BY <1>1 DEF Planned
<1>3. \A i \in 1..n : OnFold(ps)[i] \in Plans
  <2> TAKE i \in 1..n
  <2>1. ps[i] \in Params /\ "train" \in Slices
    BY DEF Slices
  <2> QED
    BY <1>2, <2>1 DEF Plans
<1>4. OnFold(ps) \in Seq(Plans) /\ Len(OnFold(ps)) = n
  BY <1>2, <1>3, Sequence
<1> QED
  BY <1>2, <1>4

\* How many evaluations the next batch of the search has.
BatchSize ==
    CASE method = "grid" -> NParams
      [] method = "lhs_polish" /\ loop.round > 0 -> 2 * Len(Active)
      [] method = "successive_halving" -> Len(loop.trail) * Budget(loop.round)
      [] OTHER -> Width

\* What the trail of a search holds: survivors, or trajectories.
Trailing ==
    /\ Halving => loop.trail \in Seq([params : Params])
    /\ Polishing /\ loop.round > 0 => loop.trail \in Seq(Trajectories)

\* A batch of the search is a sequence of plans for training slices, on the fold
\* being searched unless the method takes all folds at once.
LEMMA TrainBatchIs ==
    ASSUME method \in Methods, loop.fold \in Folds, loop.round \in Nat, Trailing,
           NEW batch \in TrainBatches
    PROVE  /\ batch \in Seq(Plans) /\ Len(batch) = BatchSize
           /\ \A i \in DOMAIN batch : batch[i].slice = "train"
           /\ ~Halving => \A i \in DOMAIN batch : batch[i].fold = loop.fold
<1> USE DEF Halving, Polishing
<1>1. CASE method = "grid"
  <2>1. batch = OnFold([p \in Params |-> p]) /\ BatchSize = NParams
    BY <1>1 DEF TrainBatches, BatchSize
  <2>2. [p \in Params |-> p] \in [1..NParams -> Params] /\ NParams \in Nat
    BY SizesAssumption DEF Params
  <2> PICK ps : ps = [p \in Params |-> p]
    OBVIOUS
  <2>3. ps \in [1..NParams -> Params] /\ batch = OnFold(ps)
    BY <2>1, <2>2
  <2>4. /\ batch \in Seq(Plans) /\ Len(batch) = NParams
        /\ \A i \in 1..NParams : batch[i].slice = "train" /\ batch[i].fold = loop.fold
    BY <2>2, <2>3, OnFoldIs
  <2>5. DOMAIN batch = 1..NParams
    BY <2>4
  <2> QED
    BY <2>1, <2>4, <2>5
<1>2. CASE method = "lhs_polish" /\ loop.round > 0
  <2> DEFINE n == 2 * Len(Active)
             P(i) == Probes(loop.trail[Active[(i + 1) \div 2]])[((i - 1) % 2) + 1]
             ps == [i \in 1..n |-> P(i)]
  <2>1. batch = OnFold(ps) /\ BatchSize = n
    BY <1>2 DEF TrainBatches, BatchSize
  <2>2. loop.trail \in Seq(Trajectories)
    BY <1>2 DEF Trailing
  <2>3. /\ Len(Active) \in Nat
        /\ \A k \in 1..Len(Active) : Active[k] \in DOMAIN loop.trail
    BY <2>2, ActiveIs
  <2>4. \A i \in DOMAIN loop.trail : loop.trail[i] \in Trajectories
    BY <2>2
  <2>5. ASSUME NEW i \in 1..n PROVE P(i) \in Params
    <3>1. (i + 1) \div 2 \in 1..Len(Active) /\ ((i - 1) % 2) + 1 \in 1..2
      BY <2>3
    <3> DEFINE t == loop.trail[Active[(i + 1) \div 2]]
    <3>2. t \in Trajectories
      BY <2>3, <2>4, <3>1
    <3> HIDE DEF t
    <3>3. t.at \in Params /\ t.step \in Nat
      BY <3>2 DEF Trajectories
    <3>4. \A j \in 1..2 : Probes(t)[j] \in Params
      BY <3>3, ProbesAre
    <3> QED
      BY <3>1, <3>4 DEF t
  <2>6. n \in Nat
    BY <2>3
  <2> HIDE DEF n, P
  <2>7. ps \in [1..n -> Params]
    BY <2>5
  <2> HIDE DEF ps
  <2>8. /\ batch \in Seq(Plans) /\ Len(batch) = n
        /\ \A i \in 1..n : batch[i].slice = "train" /\ batch[i].fold = loop.fold
    BY <2>1, <2>6, <2>7, OnFoldIs
  <2>9. DOMAIN batch = 1..n
    BY <2>8
  <2> QED
    BY <2>1, <2>8, <2>9
<1>3. CASE Halving
  <2>1. batch = Grid(TrailParams, Budget(loop.round), "train")
        /\ BatchSize = Len(loop.trail) * Budget(loop.round)
    BY <1>3 DEF TrainBatches, BatchSize
  <2>2. loop.trail \in Seq([params : Params])
    BY <1>3 DEF Trailing
  <2>3. TrailParams \in Seq(Params) /\ Len(TrailParams) = Len(loop.trail)
    <3>1. /\ Len(loop.trail) \in Nat /\ DOMAIN loop.trail = 1..Len(loop.trail)
          /\ \A i \in 1..Len(loop.trail) : loop.trail[i] \in [params : Params]
      BY <2>2, Places
    <3>2. /\ DOMAIN TrailParams = 1..Len(loop.trail)
          /\ TrailParams = [i \in 1..Len(loop.trail) |-> TrailParams[i]]
          /\ \A i \in 1..Len(loop.trail) : TrailParams[i] \in Params
      BY <3>1 DEF TrailParams
    <3> QED
      BY <3>1, <3>2, Sequence
  <2>4. Budget(loop.round) \in 1..NFolds /\ "train" \in Slices
    BY BudgetIs DEF Slices
  <2>5. /\ batch \in Seq(Plans) /\ Len(batch) = BatchSize
        /\ \A i \in DOMAIN batch : batch[i].slice = "train"
    BY <2>1, <2>3, <2>4, GridIs
  <2> QED
    BY <1>3, <2>5
<1>4. CASE method \notin {"grid", "successive_halving"} /\ ~(method = "lhs_polish" /\ loop.round > 0)
  <2>1. PICK ps \in Sample : batch = OnFold(ps)
    BY <1>4 DEF TrainBatches
  <2>2. BatchSize = Width /\ Width \in Nat /\ ps \in [1..Width -> Params]
    BY <1>4, <2>1, SizesAssumption DEF BatchSize, Sample
  <2>3. /\ batch \in Seq(Plans) /\ Len(batch) = Width
        /\ \A i \in 1..Width : batch[i].slice = "train" /\ batch[i].fold = loop.fold
    BY <2>1, <2>2, OnFoldIs
  <2>4. DOMAIN batch = 1..Width
    BY <2>2, <2>3
  <2> QED
    BY <2>2, <2>3, <2>4
<1> QED
  BY <1>1, <1>2, <1>3, <1>4

\* What the engine answers to a batch of one slice.
LEMMA AnswerIs ==
    ASSUME method \in Methods, NEW batch \in Seq(Plans), NEW answer \in Answers(batch)
    PROVE  /\ answer \in Seq(Evaluations) /\ Len(answer) = Len(batch)
           /\ \A i \in DOMAIN batch :
                 /\ answer[i].params = batch[i].params /\ answer[i].fold = batch[i].fold
                 /\ answer[i].slice = batch[i].slice
<1>1. PICK v : /\ answer = Of(batch, v)
                /\ \A i \in DOMAIN batch :
                      v[i].m \in Int /\ v[i].acc \in BOOLEAN /\ (v[i].acc => v[i].m > Clamped)
  <2>1. CASE answer = Of(batch, [i \in DOMAIN batch |-> Failed])
    <3> DEFINE v == [i \in DOMAIN batch |-> Failed]
    <3>1. \A i \in DOMAIN batch :
             v[i].m \in Int /\ v[i].acc \in BOOLEAN /\ (v[i].acc => v[i].m > Clamped)
      <4> TAKE i \in DOMAIN batch
      <4>1. v[i].m = 0 /\ v[i].acc = FALSE
        BY DEF Failed
      <4>2. 0 \in Int /\ FALSE \in BOOLEAN
        OBVIOUS
      <4> HIDE DEF v
      <4> QED
        BY <4>1, <4>2
    <3>2. answer = Of(batch, v)
      BY <2>1
    <3> HIDE DEF v
    <3> QED
      BY <3>1, <3>2
  <2>2. CASE \E v \in [DOMAIN batch -> Verdicts(method, batch[1].slice)] : answer = Of(batch, v)
    <3>1. PICK v \in [DOMAIN batch -> Verdicts(method, batch[1].slice)] : answer = Of(batch, v)
      BY <2>2
    <3>2. ASSUME NEW i \in DOMAIN batch
          PROVE  v[i] \in [m : Int, acc : BOOLEAN] /\ v[i].m > Clamped
      <4>1. batch[1] \in Plans
        BY <3>2
      <4>2. batch[1].slice \in Slices
        BY <4>1 DEF Plans
      <4>3. v[i] \in Verdicts(method, batch[1].slice)
        BY <3>1
      <4> QED
        BY <4>2, <4>3, VerdictsAssumption
    <3> QED
      BY <3>1, <3>2
  <2> QED
    BY <2>1, <2>2, Zenon DEF Answers
<1>2. answer = [i \in DOMAIN batch |-> [params |-> batch[i].params, fold |-> batch[i].fold,
                                       slice |-> batch[i].slice, m |-> v[i].m, acc |-> v[i].acc]]
  BY <1>1 DEF Of, Entry
<1>3. /\ DOMAIN answer = DOMAIN batch /\ answer = [i \in DOMAIN batch |-> answer[i]]
      /\ \A i \in DOMAIN batch : 
            answer[i] = [params |-> batch[i].params, fold |-> batch[i].fold,
                         slice |-> batch[i].slice, m |-> v[i].m, acc |-> v[i].acc]
  BY <1>2
<1>4. ASSUME NEW i \in DOMAIN batch PROVE answer[i] \in Evaluations
  <2>1. batch[i] \in Plans
    OBVIOUS
  <2>2. batch[i].params \in Params /\ batch[i].fold \in Folds /\ batch[i].slice \in Slices
    BY <2>1 DEF Plans
  <2>3. v[i].m \in Int /\ v[i].acc \in BOOLEAN /\ (v[i].acc => v[i].m > Clamped)
    BY <1>1, Zenon
  <2> QED
    BY <1>3, <2>2, <2>3 DEF Evaluations
<1>5. answer \in Seq(Evaluations) /\ Len(answer) = Len(batch)
  <2>1. Len(batch) \in Nat /\ DOMAIN batch = 1..Len(batch)
    BY Places
  <2> QED
    BY <1>3, <1>4, <2>1, Sequence
<1>6. ASSUME NEW i \in DOMAIN batch
      PROVE  /\ answer[i].params = batch[i].params /\ answer[i].fold = batch[i].fold
             /\ answer[i].slice = batch[i].slice
  BY <1>3
<1> QED
  BY <1>5, <1>6

Winners == [fold : Nat, params : Params]

Typed ==
    /\ method \in Methods
    /\ rows \in Seq(Trials) /\ loop.todo \in Seq(Evaluations) /\ winners \in Seq(Winners)
    /\ loop.fold \in 0..NFolds
    /\ pc = "ask" => loop.fold > 0
    /\ pc = "cross" => loop.fold = 0
    /\ pc # "emit" => loop.todo = << >>
    /\ Training => Trailing

\* What is trained first, fold by fold unless the method takes all at once, and
\* what is cross-validated then.
Phases ==
    /\ Training =>
        /\ \A i \in DOMAIN rows : rows[i].slice = "train"
        /\ \A i \in DOMAIN loop.todo : loop.todo[i].slice = "train"
    /\ Training /\ ~Halving =>
        /\ \A i \in DOMAIN rows : rows[i].fold <= loop.fold
        /\ \A i \in DOMAIN loop.todo : loop.todo[i].fold = loop.fold
        /\ Len(winners) = loop.fold - 1
    /\ Crossing => \A i \in DOMAIN loop.todo : loop.todo[i].slice = "oos"
    /\ pc \in {"idle", "index"} => winners = << >>

\* A rung of successive halving has its survivors and evaluates each on its folds.
Rungs ==
    Training /\ Halving =>
        /\ loop.round < RungCount
        /\ Len(loop.trail) = Survivors[loop.round]
        /\ Len(rows) + Len(loop.todo) = PlannedBefore[loop.round + Emitting]

Held(f) == {i \in RowsOf(f) : rows[i].acc}

\* The winners so far are their folds' best.
Won ==
    ~Halving => \A w \in DOMAIN winners :
        /\ winners[w].fold = w
        /\ \E i \in RowsOf(w) :
              /\ rows[i].params = winners[w].params
              /\ \A k \in RowsOf(w) : Score(rows[k]) <= Score(rows[i])

\* loop.top leads the accepted trials of the fold, but for those of the polish.
Leading ==
    Training /\ ~Halving =>
        /\ loop.top = << >> \/ \E i \in Held(loop.fold) : loop.top = << rows[i] >>
        /\ \A k \in Held(loop.fold) : (Polishing => rows[k].round = 0) =>
                loop.top # << >> /\ Score(rows[k]) <= Score(loop.top[1])
        /\ \A k \in RowsOf(loop.fold) : rows[k].round <= loop.round
        /\ pc = "ask" => \A k \in RowsOf(loop.fold) : rows[k].round < loop.round
        /\ RowsOf(loop.fold) # {} \/ loop.todo # << >> \/ (pc = "ask" /\ loop.round = 0)

\* The trajectories lead the accepted trials of the polish, but for those of the
\* batch being recorded, which are the last of the rows.
Recorded == 2 * Len(Active) - Len(loop.todo)
Climbing ==
    Training /\ Polishing /\ loop.round > 0 =>
        /\ loop.top # << >>
        /\ \A t \in DOMAIN loop.trail : \E i \in Held(loop.fold) : loop.trail[t].row = rows[i]
        /\ \A k \in Held(loop.fold) : rows[k].round > 0 /\ rows[k].round < loop.round =>
              \E t \in DOMAIN loop.trail : Score(rows[k]) <= Score(loop.trail[t].row)
        /\ pc = "emit" =>
              /\ Recorded \in 0..Len(rows)
              /\ \A k \in DOMAIN rows :
                    k > Len(rows) - Recorded <=> (k \in RowsOf(loop.fold) /\ rows[k].round = loop.round)

\* What a method may have evaluated when it has done n rounds of fold f.
Until(f, n) ==
    CASE method = "grid" -> NParams * (f - 1 + n)
      [] method = "random" -> Width * (f - 1 + n)
      [] method = "recursive_grid" -> Width * (MaxRounds * (f - 1) + n)
      [] method = "lhs_polish" -> (Width + TopKPolish * 2 * MaxPolishIters) * (f - 1)
                                     + (IF n = 0 THEN 0 ELSE Width + TopKPolish * 2 * (n - 1))
      [] OTHER -> PlannedBefore[n]
Exact == method \notin {"recursive_grid", "lhs_polish"}
Trained == {i \in DOMAIN rows : rows[i].slice = "train"}

Counted ==
    /\ Training =>
        /\ Len(rows) + Len(loop.todo) <= Until(loop.fold, loop.round + Emitting)
        /\ Exact => Len(rows) + Len(loop.todo) = Until(loop.fold, loop.round + Emitting)
        /\ method \in {"grid", "random"} => loop.round = 0
        /\ method = "recursive_grid" => loop.round < MaxRounds
        /\ Polishing => loop.round <= MaxPolishIters
        /\ Polishing /\ loop.round > 0 => Len(loop.trail) <= TopKPolish
    /\ Crossing \/ pc \in {"select", "close"} \cup Finishing =>
        /\ Cardinality(Trained) <= PlannedTrain
        /\ Exact => Cardinality(Trained) = PlannedTrain

SearchInv == Typed /\ Phases /\ Rungs /\ Won /\ Leading /\ Climbing /\ Counted

-----------------------------------------------------------------------------
(* What the steps do                                                       *)

\* The score of a trial.
LEMMA ScoreIs ==
    ASSUME NEW r \in Trials
    PROVE  /\ Score(r) \in Int /\ Score(r) >= NegInf
           /\ r.acc => Score(r) > NegInf
           /\ ~r.acc => Score(r) = NegInf
  BY ClampAssumption DEF Score, Trials

\* A trial row is one evaluation.
LEMMA RowIs ==
    ASSUME rows \in Seq(Trials), loop.round \in Nat, NEW e \in Evaluations
    PROVE  /\ TrialRow(e) \in Trials
           /\ TrialRow(e).round = loop.round /\ TrialRow(e).params = e.params
           /\ TrialRow(e).fold = e.fold /\ TrialRow(e).slice = e.slice
           /\ TrialRow(e).acc = e.acc
<1>1. NextTrialId \in Nat
  BY DEF NextTrialId
<1>2. TrialRow(e) = [id |-> NextTrialId, round |-> loop.round, params |-> e.params, fold |-> e.fold,
                     slice |-> e.slice, m |-> e.m, acc |-> e.acc]
  BY DEF TrialRow
<1>3. /\ e.params \in Params /\ e.fold \in Folds /\ e.slice \in Slices /\ e.m \in Int
      /\ e.acc \in BOOLEAN /\ (e.acc => e.m > Clamped)
  BY DEF Evaluations
<1>4. TrialRow(e) \in Trials
  BY <1>1, <1>2, <1>3 DEF Trials
<1> QED
  BY <1>2, <1>4

\* Emitting moves the first evaluation that waits to the end of the rows.
Emitted(row) ==
    /\ row = TrialRow(loop.todo[1]) /\ row \in Trials /\ loop.todo[1] \in Evaluations
    /\ row.round = loop.round /\ row.fold = loop.todo[1].fold /\ row.slice = loop.todo[1].slice
    /\ Len(rows) \in Nat /\ Len(loop.todo) \in Nat \ {0}
    /\ DOMAIN rows = 1..Len(rows) /\ DOMAIN loop.todo = 1..Len(loop.todo)
    /\ rows' \in Seq(Trials) /\ Len(rows') = Len(rows) + 1 /\ DOMAIN rows' = 1..(Len(rows) + 1)
    /\ \A i \in 1..Len(rows) : rows'[i] = rows[i]
    /\ rows'[Len(rows) + 1] = row
    /\ loop'.todo \in Seq(Evaluations) /\ Len(loop'.todo) = Len(loop.todo) - 1
    /\ DOMAIN loop'.todo = 1..(Len(loop.todo) - 1)
    /\ \A i \in 1..(Len(loop.todo) - 1) : loop'.todo[i] = loop.todo[i + 1]
    /\ loop'.fold = loop.fold /\ loop'.round = loop.round /\ loop'.trail = loop.trail
    /\ loop'.top = IF Leads(row) THEN << row >> ELSE loop.top
    /\ UNCHANGED <<method, winners>> /\ pc = "emit" /\ pc' = "emit"

\* What recording a row does, field by field.
LEMMA EmitIs ==
    ASSUME TypeOK, Typed, EmitRow
    PROVE  \E row : Emitted(row)
<1> DEFINE todo == loop.todo
           row == TrialRow(Head(todo))
<1>1. /\ pc = "emit" /\ pc' = "emit" /\ todo # << >> /\ rows' = Append(rows, row)
      /\ loop' = [loop EXCEPT !.todo = Tail(todo), !.top = IF Leads(row) THEN << row >> ELSE loop.top]
      /\ UNCHANGED <<method, winners>>
  BY DEF EmitRow
<1>2. todo \in Seq(Evaluations) /\ rows \in Seq(Trials) /\ loop.round \in Nat
  BY DEF Typed, TypeOK
<1>3. /\ loop'.todo = Tail(todo) /\ loop'.fold = loop.fold /\ loop'.round = loop.round
      /\ loop'.trail = loop.trail /\ loop'.top = IF Leads(row) THEN << row >> ELSE loop.top
  BY <1>1 DEF TypeOK
<1> HIDE DEF todo
<1>4. /\ Len(todo) \in Nat \ {0} /\ DOMAIN todo = 1..Len(todo) /\ Head(todo) = todo[1]
      /\ Tail(todo) \in Seq(Evaluations) /\ Len(Tail(todo)) = Len(todo) - 1
      /\ DOMAIN Tail(todo) = 1..(Len(todo) - 1)
      /\ \A i \in 1..(Len(todo) - 1) : Tail(todo)[i] = todo[i + 1]
  BY <1>1, <1>2
<1>5. todo[1] \in Evaluations
  BY <1>2, <1>4
<1>6. row = TrialRow(todo[1])
  BY <1>4
<1>7. /\ row \in Trials /\ row.round = loop.round /\ row.fold = todo[1].fold
      /\ row.slice = todo[1].slice
  BY <1>2, <1>5, <1>6, RowIs
<1> HIDE DEF row
<1>8. /\ Len(rows) \in Nat /\ DOMAIN rows = 1..Len(rows)
      /\ rows' \in Seq(Trials) /\ Len(rows') = Len(rows) + 1 /\ DOMAIN rows' = 1..(Len(rows) + 1)
      /\ \A i \in 1..Len(rows) : rows'[i] = rows[i]
      /\ rows'[Len(rows) + 1] = row
  BY <1>1, <1>2, <1>7
<1>9. Emitted(row)
  BY <1>1, <1>3, <1>4, <1>5, <1>6, <1>7, <1>8 DEF Emitted, todo
<1> QED
  BY <1>9

\* The rows of a fold gain the emitted one when it is a training trial of it.
LEMMA EmittedRows ==
    ASSUME NEW row, Emitted(row), NEW f
    PROVE  /\ RowsOf(f)' = RowsOf(f) \cup (IF row.fold = f /\ row.slice = "train"
                                           THEN {Len(rows) + 1} ELSE {})
           /\ RowsOf(f) \subseteq 1..Len(rows)
<1>1. /\ Len(rows) \in Nat /\ DOMAIN rows = 1..Len(rows) /\ DOMAIN rows' = 1..(Len(rows) + 1)
      /\ \A i \in 1..Len(rows) : rows'[i] = rows[i]
      /\ rows'[Len(rows) + 1] = row
  BY DEF Emitted
<1>2. RowsOf(f) = {i \in 1..Len(rows) : rows[i].fold = f /\ rows[i].slice = "train"}
  BY <1>1 DEF RowsOf
<1>3. RowsOf(f)' = {i \in 1..(Len(rows) + 1) : rows'[i].fold = f /\ rows'[i].slice = "train"}
  BY <1>1 DEF RowsOf
<1> PICK n \in Nat : n = Len(rows)
  BY <1>1
<1>4. 1..(n + 1) = (1..n) \cup {n + 1}
  OBVIOUS
<1> QED
  BY <1>1, <1>2, <1>3, <1>4

\* A search that starts a fold, or the cross-validation.
LEMMA FreshFields ==
    ASSUME NEW f
    PROVE  /\ Fresh(f).fold = f /\ Fresh(f).round = 0 /\ Fresh(f).todo = << >>
           /\ Fresh(f).top = << >> /\ Fresh(f).trail = << >>
  BY DEF Fresh

\* The fields of a loop that goes on.
LEMMA NextRoundFields ==
    ASSUME TypeOK, NEW trail, NextRound(trail)
    PROVE  /\ loop'.fold = loop.fold /\ loop'.round = loop.round + 1 /\ loop'.todo = loop.todo
           /\ loop'.top = loop.top /\ loop'.trail = trail /\ pc' = "ask" /\ winners' = winners
<1>1. loop' = [loop EXCEPT !.round = loop.round + 1, !.trail = trail]
  BY DEF NextRound
<1> QED
  BY <1>1 DEF TypeOK, NextRound

\* The rows of a fold depend on the rows only.
LEMMA SameRows == ASSUME UNCHANGED rows, NEW f PROVE RowsOf(f)' = RowsOf(f)
  BY DEF RowsOf

-----------------------------------------------------------------------------
(* The invariant of the search, step by step                               *)

\* A step that leaves the search alone keeps it.
LEMMA ElsewhereKeeps ==
    ASSUME SearchInv, UNCHANGED <<method, loop, rows, winners>>,
           \/ pc' = pc
           \/ pc = "idle" /\ pc' = "index"
           \/ /\ pc \in {"select", "close"} \cup Finishing
              /\ pc' \in {"select", "close"} \cup Finishing
    PROVE  SearchInv'
<1> USE DEF SearchInv
<1>1. CASE pc' = pc
  <2>1. Typed' /\ Phases'
    BY <1>1, Zenon DEF Typed, Phases, Training, Crossing, Trailing, Halving, Polishing
  <2>2. Rungs' /\ Won' /\ Leading'
    <3>1. Rungs'
      BY <1>1 DEF Rungs, Training, Emitting, Halving
    <3>2. Won'
      BY <1>1 DEF Won, Halving, RowsOf
    <3>3. Leading'
      BY <1>1, Zenon DEF Leading, Training, Halving, Polishing, Held, RowsOf
    <3> QED
      BY <3>1, <3>2, <3>3
  <2>3. Climbing' /\ Counted'
    <3>1. Climbing'
      <4>1. Active' = Active
        BY DEF Active, Ranked
      <4>2. Recorded' = Recorded
        BY <4>1 DEF Recorded
      <4> QED
        BY <1>1, <4>2, Zenon DEF Climbing, Training, Polishing, Held, RowsOf
    <3>2. Counted'
      BY <1>1, Zenon DEF Counted, Training, Crossing, Finishing, Emitting, Until, Exact, Polishing, Trained, PlannedTrain
    <3> QED
      BY <3>1, <3>2
  <2> QED
    BY <2>1, <2>2, <2>3
<1>2. CASE /\ pc \notin {"ask", "emit", "cross"} /\ pc' \notin {"ask", "emit", "cross"}
           /\ pc' \in {"idle", "index"} => pc \in {"idle", "index"}
           /\ pc' \in {"select", "close"} \cup Finishing => pc \in {"select", "close"} \cup Finishing
  <2>1. ~Training' /\ ~Crossing'
    BY <1>2 DEF Training, Crossing
  <2>2. Typed'
    BY <1>2, <2>1 DEF Typed
  <2>3. Phases' /\ Rungs' /\ Leading' /\ Climbing'
    BY <1>2, <2>1 DEF Phases, Rungs, Leading, Climbing
  <2>4. Won'
    BY Zenon DEF Won, Halving, RowsOf
  <2>5. Counted'
    BY <1>2, <2>1, Zenon DEF Counted, Exact, Trained, PlannedTrain
  <2> QED
    BY <2>2, <2>3, <2>4, <2>5
<1> QED
  BY <1>1, <1>2 DEF Finishing

\* A process that is gone has no search.
LEMMA ForgetKeeps == ASSUME SearchInv, Forgotten, UNCHANGED method PROVE SearchInv'
<1>1. /\ pc' = "idle" /\ loop' = Fresh(0) /\ rows' = << >> /\ winners' = << >>
      /\ method \in Methods
  BY DEF Forgotten, SearchInv, Typed
<1>2. ~Training' /\ ~Crossing' /\ 0 \in 0..NFolds
  BY <1>1, SizesAssumption DEF Training, Crossing
<1>3. loop'.todo = << >> /\ loop'.fold = 0
  BY <1>1 DEF Fresh
<1>4. Typed'
  <2>1. rows' \in Seq(Trials) /\ winners' \in Seq(Winners)
    BY <1>1
  <2>2. loop'.todo \in Seq(Evaluations)
    BY <1>3
  <2> QED
    BY <1>1, <1>2, <1>3, <2>1, <2>2 DEF Typed
<1>5. Phases' /\ Rungs' /\ Leading' /\ Climbing' /\ Counted'
  BY <1>1, <1>2 DEF Phases, Rungs, Leading, Climbing, Counted, Finishing
<1>6. Won'
  <2>1. DOMAIN winners' = {}
    BY <1>1
  <2> QED
    BY <2>1 DEF Won
<1> QED
  BY <1>4, <1>5, <1>6 DEF SearchInv

\* The search begins.
LEMMA RegisterKeeps == ASSUME IInv, SearchInv, Register PROVE SearchInv'
<1>1. /\ pc = "index" /\ pc' = "ask" /\ UNCHANGED <<method, rows, winners>>
  BY DEF Register
<1>2. rows = << >> /\ winners = << >> /\ method \in Methods
  BY <1>1 DEF IInv, Searching, SearchInv, Phases, Typed
<1>3. /\ loop'.fold = 1 /\ loop'.round = 0 /\ loop'.todo = << >> /\ loop'.top = << >>
      /\ Halving => loop'.trail \in Seq([params : Params]) /\ Len(loop'.trail) = InitialCandidates
  <2>1. CASE Halving
    <3>1. PICK ps \in [1..InitialCandidates -> Params] :
              loop' = [Fresh(1) EXCEPT !.trail = [i \in DOMAIN ps |-> [params |-> ps[i]]]]
      BY <2>1 DEF Register, Halving
    <3> DEFINE trail == [i \in 1..InitialCandidates |-> [params |-> ps[i]]]
    <3>2. loop' = [fold |-> 1, round |-> 0, todo |-> << >>, top |-> << >>, trail |-> trail]
      BY <3>1 DEF Fresh
    <3>3. trail \in Seq([params : Params]) /\ Len(trail) = InitialCandidates
      BY SizesAssumption
    <3> HIDE DEF trail
    <3> QED
      BY <3>2, <3>3
  <2>2. CASE ~Halving
    <3>1. loop' = Fresh(1)
      BY <2>2 DEF Register, Halving
    <3> QED
      BY <2>2, <3>1, FreshFields
  <2> QED
    BY <2>1, <2>2
<1>4. Halving' = Halving /\ Polishing' = Polishing /\ Training' /\ ~Crossing' /\ Emitting' = 0
  BY <1>1, <1>3 DEF Halving, Polishing, Training, Crossing, Emitting
<1>5. DOMAIN rows' = {} /\ DOMAIN winners' = {} /\ Len(rows') = 0 /\ Len(winners') = 0
      /\ Len(loop'.todo) = 0 /\ DOMAIN loop'.todo = {}
  BY <1>1, <1>2, <1>3
<1>6. Typed'
  <2>1. Trailing'
    BY <1>3, <1>4 DEF Trailing
  <2>2. rows' \in Seq(Trials) /\ loop'.todo \in Seq(Evaluations) /\ winners' \in Seq(Winners)
    BY <1>1, <1>2, <1>3
  <2>3. loop'.fold \in 0..NFolds
    BY <1>3, SizesAssumption
  <2> QED
    BY <1>1, <1>2, <1>3, <2>1, <2>2, <2>3 DEF Typed
<1>7. Phases'
  BY <1>1, <1>3, <1>4, <1>5 DEF Phases
<1>8. Rungs'
  <2>1. 0 < RungCount /\ 0 + 0 = 0
    BY RungCountIs
  <2> QED
    BY <1>3, <1>4, <1>5, <2>1, SurvivorsAre, PlannedBeforeIs DEF Rungs
<1>9. Won' /\ Leading' /\ Climbing'
  BY <1>1, <1>3, <1>5 DEF Won, Leading, Climbing, Held, RowsOf
<1>10. Counted'
  <2>1. Until(1, 0)' = 0
    <3>1. PlannedBefore[0] = 0 /\ 0 = 1 - 1
      BY PlannedBeforeIs
    <3>2. /\ NParams * (1 - 1 + 0) = 0 /\ Width * (1 - 1 + 0) = 0
          /\ Width * (MaxRounds * (1 - 1) + 0) = 0
          /\ (Width + TopKPolish * 2 * MaxPolishIters) * (1 - 1) + 0 = 0
      BY SizesAssumption
    <3> QED
      BY <3>1, <3>2 DEF Until
  <2>2. Until(loop.fold, loop.round + Emitting)' = 0
    <3>1. loop'.fold = 1 /\ loop'.round + Emitting' = 0
      BY <1>3, <1>4
    <3> QED
      BY <2>1, <3>1 DEF Until
  <2>3. 0 < MaxRounds /\ 0 <= MaxPolishIters
    BY SizesAssumption
  <2> QED
    BY <1>1, <1>3, <1>4, <1>5, <2>2, <2>3, SizesAssumption DEF Counted, Finishing
<1> QED
  BY <1>6, <1>7, <1>8, <1>9, <1>10 DEF SearchInv

\* What a batch that is answered changes.
LEMMA EvaluateIs ==
    ASSUME TypeOK, NEW batch, Evaluate(batch)
    PROVE  \E answer \in Answers(batch) :
              /\ loop'.todo = answer /\ loop'.fold = loop.fold /\ loop'.round = loop.round
              /\ loop'.top = loop.top /\ loop'.trail = loop.trail
              /\ pc' = "emit" /\ UNCHANGED <<method, rows, winners>>
<1>1. PICK answer \in Answers(batch) :
        /\ loop' = [loop EXCEPT !.todo = answer] /\ pc' = "emit"
        /\ UNCHANGED <<method, rows, winners>>
  BY DEF Evaluate
<1>2. /\ loop'.todo = answer /\ loop'.fold = loop.fold /\ loop'.round = loop.round
      /\ loop'.top = loop.top /\ loop'.trail = loop.trail
  BY <1>1 DEF TypeOK
<1> QED
  BY <1>1, <1>2

\* Two probes of every live trajectory, and those it may have next round, fit.
LEMMA Fits ==
    ASSUME NEW q \in Int, NEW u \in Int, NEW w \in Nat, NEW a \in Nat, NEW k \in Nat, a <= k
    PROVE  /\ q + (w + u) \in Int /\ q + (w + (u + k * 2)) \in Int /\ 2 * a \in Nat
           /\ q + (w + u) + 2 * a <= q + (w + (u + k * 2))
  OBVIOUS

\* A batch of the search fits what is planned for its round.
LEMMA UntilGrows ==
    ASSUME Typed, Rungs, Counted, pc = "ask", loop.round \in Nat
    PROVE  /\ Until(loop.fold, loop.round) \in Int /\ Until(loop.fold, loop.round + 1) \in Int
           /\ BatchSize \in Nat
           /\ Until(loop.fold, loop.round) + BatchSize <= Until(loop.fold, loop.round + 1)
           /\ Exact => Until(loop.fold, loop.round) + BatchSize = Until(loop.fold, loop.round + 1)
<1> PICK f \in 1..NFolds : f = loop.fold
  BY DEF Typed
<1> PICK n \in Nat : n = loop.round
  OBVIOUS
<1>1. NFolds \in Nat /\ f \in Int /\ f >= 1 /\ Training
  BY SizesAssumption DEF Training, Typed
<1>2. CASE method \in {"grid", "random"}
  <2>1. n = 0
    BY <1>1, <1>2 DEF Counted
  <2> PICK b \in Nat : b = IF method = "grid" THEN NParams ELSE Width
    BY SizesAssumption
  <2>2. BatchSize = b
    BY <1>2 DEF BatchSize
  <2>3. Until(f, 0) = b * (f - 1 + 0) /\ Until(f, 0 + 1) = b * (f - 1 + 1)
    BY <1>2 DEF Until
  <2>4. b * (f - 1 + 0) \in Int /\ b * (f - 1 + 1) = b * (f - 1 + 0) + b
    BY <1>1
  <2> QED
    BY <2>1, <2>2, <2>3, <2>4
<1>3. CASE method = "recursive_grid"
  <2>1. BatchSize = Width /\ Width \in Nat /\ MaxRounds \in Nat
    BY <1>3, SizesAssumption DEF BatchSize
  <2>2. MaxRounds * (f - 1) \in Int
    BY <1>1, <2>1
  <2> PICK q \in Int : q = MaxRounds * (f - 1)
    BY <2>2
  <2>3. Until(f, n) = Width * (q + n) /\ Until(f, n + 1) = Width * (q + (n + 1))
    BY <1>3 DEF Until
  <2>4. Width * (q + n) \in Int /\ Width * (q + (n + 1)) = Width * (q + n) + Width
    BY <2>1
  <2>5. ~Exact
    BY <1>3 DEF Exact
  <2> QED
    BY <2>1, <2>3, <2>4, <2>5
<1>4. CASE Polishing
  <2>1. TopKPolish \in Nat /\ MaxPolishIters \in Nat /\ Width \in Nat
    BY SizesAssumption
  <2>2. (Width + TopKPolish * 2 * MaxPolishIters) * (f - 1) \in Int
    <3>1. TopKPolish * 2 * MaxPolishIters \in Int
      BY <2>1
    <3> PICK t \in Int : t = TopKPolish * 2 * MaxPolishIters
      BY <3>1
    <3> QED
      BY <1>1, <2>1
  <2> PICK q \in Int : q = (Width + TopKPolish * 2 * MaxPolishIters) * (f - 1)
    BY <2>2
  <2>3. /\ Until(f, n) = q + (IF n = 0 THEN 0 ELSE Width + TopKPolish * 2 * (n - 1))
        /\ Until(f, n + 1) = q + (IF n + 1 = 0 THEN 0 ELSE Width + TopKPolish * 2 * (n + 1 - 1))
    BY <1>4 DEF Until, Polishing
  <2>4. ~Exact
    BY <1>4 DEF Exact, Polishing
  <2>5. CASE n = 0
    <3>1. BatchSize = Width
      BY <1>4, <2>5 DEF BatchSize, Polishing
    <3>2. TopKPolish * 2 * (n + 1 - 1) = 0
      BY <2>1, <2>5
    <3> QED
      BY <2>1, <2>3, <2>4, <2>5, <3>1, <3>2
  <2>6. CASE n > 0
    <3>1. BatchSize = 2 * Len(Active)
      BY <1>4, <2>6 DEF BatchSize, Polishing
    <3>2. loop.trail \in Seq(Trajectories) /\ Len(loop.trail) <= TopKPolish
      BY <1>1, <1>4, <2>6 DEF Counted, Typed, Trailing
    <3>3. Len(Active) \in Nat /\ Len(Active) <= Len(loop.trail) /\ Len(loop.trail) \in Nat
      BY <3>2, ActiveIs, Places
    <3>4. /\ TopKPolish * 2 * (n - 1) \in Int
          /\ TopKPolish * 2 * (n + 1 - 1) = TopKPolish * 2 * (n - 1) + TopKPolish * 2
      BY <2>1
    <3> PICK u \in Int : u = TopKPolish * 2 * (n - 1)
      BY <3>4
    <3> PICK a \in Nat : a = Len(Active)
      BY <3>3
    <3>5. a <= TopKPolish
      BY <2>1, <3>2, <3>3
    <3>6. Until(f, n) = q + (Width + u)
      BY <2>3, <2>6
    <3>7. Until(f, n + 1) = q + (Width + (u + TopKPolish * 2))
      BY <2>3, <2>6, <3>4
    <3>8. /\ q + (Width + u) \in Int /\ q + (Width + (u + TopKPolish * 2)) \in Int /\ 2 * a \in Nat
          /\ q + (Width + u) + 2 * a <= q + (Width + (u + TopKPolish * 2))
      BY <2>1, <3>5, Fits
    <3>9. BatchSize = 2 * a
      BY <3>1
    <3> QED
      BY <2>4, <3>6, <3>7, <3>8, <3>9
  <2> QED
    BY <2>5, <2>6
<1>5. CASE Halving
  <2>1. n < RungCount /\ Len(loop.trail) = Survivors[n]
    BY <1>1, <1>5 DEF Rungs
  <2>2. n \in 0..RungCount /\ n + 1 \in 1..RungCount /\ n + 1 \in 0..RungCount /\ n + 1 - 1 = n
    BY <2>1, RungCountIs
  <2>3. /\ PlannedBefore[n] \in Nat /\ PlannedBefore[n + 1] \in Nat
        /\ PlannedBefore[n + 1] = PlannedBefore[n] + Survivors[n] * Budget(n)
    BY <2>2, PlannedBeforeIs
  <2>4. BatchSize = Survivors[n] * Budget(n)
    BY <1>5, <2>1 DEF BatchSize, Halving
  <2>5. Survivors[n] \in Nat /\ Budget(n) \in Nat
    BY <2>2, SurvivorsAre, BudgetIs, SizesAssumption
  <2>6. Survivors[n] * Budget(n) \in Nat
    BY <2>5
  <2>7. Until(f, n) = PlannedBefore[n] /\ Until(f, n + 1) = PlannedBefore[n + 1]
    BY <1>5 DEF Until, Halving
  <2> QED
    BY <2>3, <2>4, <2>6, <2>7
<1> QED
  BY <1>2, <1>3, <1>4, <1>5, MethodsAssumption DEF Typed, SearchMethods, Polishing, Halving

\* A batch of the search is evaluated.
LEMMA SearchKeeps == ASSUME IInv, SearchInv, SearchBatch PROVE SearchInv'
<1> USE DEF SearchInv
<1>1. TypeOK /\ loop.round \in Nat /\ pc = "ask" /\ method \in Methods /\ loop.fold \in Folds
  <2>1. TypeOK /\ loop.round \in Nat /\ pc = "ask"
    BY DEF IInv, TypeOK, SearchBatch
  <2>2. method \in Methods /\ loop.fold \in 0..NFolds /\ loop.fold > 0
    BY <2>1 DEF Typed
  <2> QED
    BY <2>1, <2>2, SizesAssumption DEF Folds
<1>2. PICK batch \in TrainBatches : Evaluate(batch)
  BY DEF SearchBatch
<1>3. PICK answer \in Answers(batch) :
        /\ loop'.todo = answer /\ loop'.fold = loop.fold /\ loop'.round = loop.round
        /\ loop'.top = loop.top /\ loop'.trail = loop.trail
        /\ pc' = "emit" /\ UNCHANGED <<method, rows, winners>>
  BY <1>1, <1>2, EvaluateIs
<1>4. /\ Training /\ Training' /\ ~Crossing' /\ Halving' = Halving /\ Polishing' = Polishing
      /\ Emitting = 0 /\ Emitting' = 1
  BY <1>1, <1>3, SizesAssumption DEF Training, Crossing, Halving, Polishing, Emitting, Folds
<1>5. /\ batch \in Seq(Plans) /\ Len(batch) = BatchSize
      /\ \A i \in DOMAIN batch : batch[i].slice = "train"
      /\ ~Halving => \A i \in DOMAIN batch : batch[i].fold = loop.fold
  BY <1>1, <1>4, TrainBatchIs DEF Typed
<1>6. /\ answer \in Seq(Evaluations) /\ Len(answer) = BatchSize /\ DOMAIN answer = DOMAIN batch
      /\ \A i \in DOMAIN answer : answer[i].slice = "train"
      /\ ~Halving => \A i \in DOMAIN answer : answer[i].fold = loop.fold
  <2>1. /\ answer \in Seq(Evaluations) /\ Len(answer) = Len(batch)
        /\ \A i \in DOMAIN batch :
              answer[i].fold = batch[i].fold /\ answer[i].slice = batch[i].slice
    BY <1>1, <1>5, AnswerIs
  <2>2. DOMAIN answer = DOMAIN batch
    BY <1>5, <2>1
  <2> QED
    BY <1>5, <2>1, <2>2
<1>7. loop.todo = << >> /\ Len(loop.todo) = 0
  BY <1>1 DEF Typed
<1>8. Typed'
  <2>1. Trailing'
    BY <1>3, <1>4 DEF Typed, Trailing
  <2> QED
    BY <1>3, <1>6, <2>1 DEF Typed
<1>9. Phases'
  BY <1>3, <1>4, <1>6 DEF Phases
<1>10. Rungs'
  <2>1. CASE Halving
    <3>1. loop.round < RungCount /\ Len(loop.trail) = Survivors[loop.round]
          /\ Len(rows) + 0 = PlannedBefore[loop.round + 0]
      BY <1>4, <1>7, <2>1 DEF Rungs
    <3>2. BatchSize = Survivors[loop.round] * Budget(loop.round)
      BY <2>1, <3>1 DEF BatchSize, Halving
    <3>3. loop.round + 1 \in 1..RungCount /\ loop.round + 1 - 1 = loop.round
          /\ loop.round + 0 = loop.round
      BY <1>1, <3>1, RungCountIs
    <3>4. PlannedBefore[loop.round + 1]
              = PlannedBefore[loop.round] + Survivors[loop.round] * Budget(loop.round)
      <4> PICK r \in 1..RungCount : r = loop.round + 1
        BY <3>3
      <4>1. PlannedBefore[r] = PlannedBefore[r - 1] + Survivors[r - 1] * Budget(r - 1)
        BY PlannedBeforeIs
      <4>2. r - 1 = loop.round
        BY <1>1
      <4> QED
        BY <4>1, <4>2
    <3>5. Len(rows) \in Nat
      BY DEF Typed
    <3>6. Len(rows) + BatchSize = PlannedBefore[loop.round + 1]
      BY <3>1, <3>2, <3>3, <3>4, <3>5
    <3> QED
      BY <1>3, <1>4, <1>6, <3>1, <3>6 DEF Rungs
  <2>2. CASE ~Halving
    BY <1>4, <2>2 DEF Rungs
  <2> QED
    BY <2>1, <2>2
<1>11. Won'
  BY <1>3, <1>4 DEF Won, RowsOf
<1>12. Leading'
  <2>1. ASSUME ~Halving, loop.round = 0 PROVE answer # << >>
    <3>1. BatchSize \in Nat \ {0}
      BY <2>1, SizesAssumption DEF BatchSize, Halving
    <3> QED
      BY <1>6, <3>1
  <2> QED
    BY <1>1, <1>3, <1>4, <1>7, <2>1 DEF Leading, Held, RowsOf
<1>13. Climbing'
  <2> SUFFICES ASSUME Polishing, loop.round > 0 PROVE Climbing'
    BY <1>3, <1>4 DEF Climbing
  <2>1. BatchSize = 2 * Len(Active) /\ ~Halving
    BY DEF BatchSize, Polishing, Halving
  <2>2. Active' = Active
    BY <1>3 DEF Active, Ranked
  <2>3. Len(Active) \in Nat
    <3>1. loop.trail \in Seq(Trajectories)
      BY <1>4 DEF Typed, Trailing
    <3> QED
      BY <3>1, ActiveIs
  <2>4. Recorded' = 0
    BY <1>3, <1>6, <2>1, <2>2, <2>3 DEF Recorded
  <2>5. Len(rows) \in Nat /\ DOMAIN rows = 1..Len(rows)
    BY DEF Typed
  <2>6. \A k \in DOMAIN rows : ~(k > Len(rows) - 0)
    BY <2>5
  <2>7. \A k \in RowsOf(loop.fold) : rows[k].round < loop.round /\ rows[k].round # loop.round
    <3>1. \A k \in RowsOf(loop.fold) : rows[k].round < loop.round
      BY <1>1, <1>4, <2>1 DEF Leading
    <3> QED
      BY <1>1, <3>1
  <2>8. 0 \in 0..Len(rows)
    BY <2>5
  <2>9. /\ loop.top # << >>
        /\ \A t \in DOMAIN loop.trail : \E i \in Held(loop.fold) : loop.trail[t].row = rows[i]
        /\ \A k \in Held(loop.fold) : rows[k].round > 0 /\ rows[k].round < loop.round =>
             \E t \in DOMAIN loop.trail : Score(rows[k]) <= Score(loop.trail[t].row)
    BY <1>4 DEF Climbing
  <2>10. RowsOf(loop.fold)' = RowsOf(loop.fold) /\ Held(loop.fold)' = Held(loop.fold)
    BY <1>3 DEF RowsOf, Held
  <2>11. /\ loop'.top # << >>
         /\ \A t \in DOMAIN loop'.trail : \E i \in Held(loop.fold)' : loop'.trail[t].row = rows'[i]
         /\ \A k \in Held(loop.fold)' : rows'[k].round > 0 /\ rows'[k].round < loop'.round =>
              \E t \in DOMAIN loop'.trail : Score(rows'[k]) <= Score(loop'.trail[t].row)
    <3>1. /\ loop'.top = loop.top /\ loop'.trail = loop.trail /\ rows' = rows
          /\ loop'.round = loop.round
      BY <1>3
    <3>2. loop'.top # << >>
      BY <2>9, <3>1
    <3>3. \A t \in DOMAIN loop'.trail : \E i \in Held(loop.fold)' : loop'.trail[t].row = rows'[i]
      BY <2>9, <2>10, <3>1
    <3>4. \A k \in Held(loop.fold)' : rows'[k].round > 0 /\ rows'[k].round < loop'.round =>
              \E t \in DOMAIN loop'.trail : Score(rows'[k]) <= Score(loop'.trail[t].row)
      <4> SUFFICES ASSUME NEW k \in Held(loop.fold)', rows'[k].round > 0, rows'[k].round < loop'.round
                   PROVE  \E t \in DOMAIN loop'.trail : Score(rows'[k]) <= Score(loop'.trail[t].row)
        OBVIOUS
      <4>1. k \in Held(loop.fold) /\ rows[k].round > 0 /\ rows[k].round < loop.round
        BY <2>10, <3>1
      <4>2. PICK t \in DOMAIN loop.trail : Score(rows[k]) <= Score(loop.trail[t].row)
        BY <2>9, <4>1
      <4>3. t \in DOMAIN loop'.trail /\ Score(rows'[k]) <= Score(loop'.trail[t].row)
        BY <3>1, <4>2
      <4> QED
        BY <4>3
    <3> QED
      BY <3>2, <3>3, <3>4
  <2>12. \A k \in DOMAIN rows' :
            k > Len(rows') - Recorded' <=> (k \in RowsOf(loop.fold)' /\ rows'[k].round = loop'.round)
    BY <1>3, <2>4, <2>6, <2>7, <2>10
  <2>13. Recorded' \in 0..Len(rows')
    BY <1>3, <2>4, <2>8
  <2> QED
    BY <2>11, <2>12, <2>13 DEF Climbing
<1>14. Counted'
  <2>1. /\ Until(loop.fold, loop.round) \in Int /\ Until(loop.fold, loop.round + 1) \in Int
        /\ BatchSize \in Nat
        /\ Until(loop.fold, loop.round) + BatchSize <= Until(loop.fold, loop.round + 1)
        /\ Exact => Until(loop.fold, loop.round) + BatchSize = Until(loop.fold, loop.round + 1)
    BY <1>1, UntilGrows
  <2>2. loop.round + Emitting = loop.round /\ loop'.round + Emitting' = loop.round + 1
    BY <1>1, <1>3, <1>4
  <2>3. /\ Len(rows) + 0 <= Until(loop.fold, loop.round)
        /\ Exact => Len(rows) + 0 = Until(loop.fold, loop.round)
    BY <1>4, <1>7, <2>2 DEF Counted
  <2>4. /\ Len(rows) + BatchSize <= Until(loop.fold, loop.round + 1)
        /\ Exact => Len(rows) + BatchSize = Until(loop.fold, loop.round + 1)
    <3>1. Len(rows) \in Nat
      BY DEF Typed
    <3> QED
      BY <2>1, <2>3, <3>1
  <2>5. Until(loop.fold, loop.round + Emitting)' = Until(loop.fold, loop.round + 1) /\ Exact' = Exact
    BY <1>3, <2>2 DEF Until, Exact
  <2>6. Len(loop'.todo) = BatchSize /\ Len(rows') = Len(rows)
    BY <1>3, <1>6
  <2>7. /\ method \in {"grid", "random"} => loop.round = 0
        /\ method = "recursive_grid" => loop.round < MaxRounds
        /\ Polishing => loop.round <= MaxPolishIters
        /\ Polishing /\ loop.round > 0 => Len(loop.trail) <= TopKPolish
    BY <1>4 DEF Counted
  <2>8. pc' \notin {"select", "close"} \cup Finishing
    BY <1>3 DEF Finishing
  <2> QED
    BY <1>3, <1>4, <2>4, <2>5, <2>6, <2>7, <2>8 DEF Counted
<1> QED
  BY <1>8, <1>9, <1>10, <1>11, <1>12, <1>13, <1>14

\* The winners are cross-validated.
LEMMA CrossKeeps == ASSUME IInv, SearchInv, CrossValidate PROVE SearchInv'
<1> USE DEF SearchInv
<1>1. TypeOK /\ pc = "cross" /\ loop.fold = 0 /\ method \in Methods /\ Evaluate(CrossBatch)
  BY DEF IInv, CrossValidate, Typed
<1>2. PICK answer \in Answers(CrossBatch) :
        /\ loop'.todo = answer /\ loop'.fold = loop.fold /\ loop'.round = loop.round
        /\ loop'.top = loop.top /\ loop'.trail = loop.trail
        /\ pc' = "emit" /\ UNCHANGED <<method, rows, winners>>
  BY <1>1, EvaluateIs
<1>3. CrossBatch \in Seq(Plans) /\ \A i \in DOMAIN CrossBatch : CrossBatch[i].slice = "oos"
  <2> DEFINE ps == [w \in DOMAIN winners |-> winners[w].params]
  <2>1. Len(winners) \in Nat /\ DOMAIN winners = 1..Len(winners)
        /\ \A w \in 1..Len(winners) : winners[w] \in Winners
    BY Places DEF Typed
  <2>2. /\ DOMAIN ps = 1..Len(winners) /\ ps = [i \in 1..Len(winners) |-> ps[i]]
        /\ \A i \in 1..Len(winners) : ps[i] \in Params
    BY <2>1 DEF Winners
  <2> HIDE DEF ps
  <2>3. ps \in Seq(Params)
    BY <2>1, <2>2, Sequence
  <2>4. NFolds \in 1..NFolds /\ "oos" \in Slices
    BY SizesAssumption DEF Slices
  <2> QED
    BY <2>3, <2>4, GridIs DEF CrossBatch, ps
<1>4. answer \in Seq(Evaluations) /\ \A i \in DOMAIN answer : answer[i].slice = "oos"
  <2>1. /\ answer \in Seq(Evaluations) /\ Len(answer) = Len(CrossBatch)
        /\ \A i \in DOMAIN CrossBatch : answer[i].slice = CrossBatch[i].slice
    BY <1>1, <1>3, AnswerIs
  <2>2. DOMAIN answer = DOMAIN CrossBatch
    BY <1>3, <2>1
  <2> QED
    BY <1>3, <2>1, <2>2
<1>5. ~Training' /\ Crossing' /\ Crossing /\ Halving' = Halving
  BY <1>1, <1>2 DEF Training, Crossing, Halving
<1>6. Typed' /\ Phases'
  BY <1>1, <1>2, <1>4, <1>5 DEF Typed, Phases
<1>7. Rungs' /\ Leading' /\ Climbing'
  BY <1>5 DEF Rungs, Leading, Climbing
<1>8. Won'
  BY <1>2, <1>5 DEF Won, RowsOf
<1>9. Counted'
  BY <1>2, <1>5, Zenon DEF Counted, Exact, Trained, PlannedTrain
<1> QED
  BY <1>6, <1>7, <1>8, <1>9

\* A row of the fold before it is one after it, with the same score.
LEMMA StillHeld ==
    ASSUME NEW row, Emitted(row), NEW f, NEW i \in RowsOf(f)
    PROVE  i \in RowsOf(f)' /\ rows'[i] = rows[i] /\ (i \in Held(f) => i \in Held(f)')
<1>1. i \in RowsOf(f)' /\ i \in 1..Len(rows)
  BY EmittedRows
<1>2. rows'[i] = rows[i]
  BY <1>1 DEF Emitted
<1> QED
  BY <1>1, <1>2 DEF Held

\* A row of the fold after it was one before, or is the emitted one.
LEMMA HeldBefore ==
    ASSUME NEW row, Emitted(row), NEW f, NEW k \in RowsOf(f)'
    PROVE  /\ \/ /\ k \in RowsOf(f) /\ k \in 1..Len(rows) /\ rows'[k] = rows[k]
                 /\ k \in Held(f)' => k \in Held(f)
              \/ k = Len(rows) + 1 /\ rows'[k] = row /\ row.fold = f /\ row.slice = "train"
<1>1. RowsOf(f)' = RowsOf(f) \cup (IF row.fold = f /\ row.slice = "train" THEN {Len(rows) + 1} ELSE {})
      /\ RowsOf(f) \subseteq 1..Len(rows)
  BY EmittedRows
<1>2. CASE k \in RowsOf(f)
  <2>1. k \in 1..Len(rows) /\ rows'[k] = rows[k]
    BY <1>1, <1>2 DEF Emitted
  <2> QED
    BY <1>2, <2>1 DEF Held
<1>3. CASE k \notin RowsOf(f)
  BY <1>1, <1>3 DEF Emitted
<1> QED
  BY <1>2, <1>3

\* The emitted row leads the others, or does not.
LEMMA EmitLeads ==
    ASSUME TypeOK, SearchInv, NEW row, Emitted(row), Training, ~Halving,
           row.slice = "train", row.fold = loop.fold
    PROVE  Leading'
<1> USE DEF SearchInv
<1>1. /\ loop'.fold = loop.fold /\ loop'.round = loop.round /\ method' = method
      /\ loop'.top = IF Leads(row) THEN << row >> ELSE loop.top
      /\ pc = "emit" /\ pc' = "emit" /\ Len(rows) \in Nat /\ rows \in Seq(Trials)
      /\ row \in Trials /\ row.round = loop.round /\ loop.round \in Nat
      /\ rows'[Len(rows) + 1] = row
  BY DEF Emitted, TypeOK, Typed
<1> PICK f : f = loop.fold
  OBVIOUS
<1>2. Polishing' = Polishing /\ ~Halving'
  BY <1>1 DEF Polishing, Halving
<1>3. Len(rows) + 1 \in RowsOf(f)'
  BY EmittedRows
<1>4. /\ loop.top = << >> \/ \E i \in Held(f) : loop.top = << rows[i] >>
      /\ \A k \in Held(f) : (Polishing => rows[k].round = 0) =>
              loop.top # << >> /\ Score(rows[k]) <= Score(loop.top[1])
      /\ \A k \in RowsOf(f) : rows[k].round <= loop.round
  BY DEF Leading
<1>5. \A i \in RowsOf(f) : rows[i] \in Trials
  BY <1>1 DEF RowsOf
<1>6. Score(row) \in Int
  BY <1>1, ScoreIs
<1>7. \A i \in RowsOf(f) : Score(rows[i]) \in Int
  BY <1>5, ScoreIs
<1>8. loop.top # << >> => Score(loop.top[1]) \in Int /\ DOMAIN loop.top = {1}
  BY <1>4, <1>7 DEF Held
<1>9. loop'.top = << >> \/ \E i \in Held(f)' : loop'.top = << rows'[i] >>
  <2>1. CASE Leads(row)
    <3>1. row.acc /\ loop'.top = << row >>
      BY <1>1, <2>1 DEF Leads
    <3>2. Len(rows) + 1 \in Held(f)'
      BY <1>1, <1>3, <3>1 DEF Held
    <3> QED
      BY <1>1, <3>1, <3>2
  <2>2. CASE ~Leads(row) /\ loop.top # << >>
    <3>1. PICK i \in Held(f) : loop.top = << rows[i] >>
      BY <1>4, <2>2
    <3>2. i \in Held(f)' /\ rows'[i] = rows[i]
      BY StillHeld DEF Held
    <3> QED
      BY <1>1, <2>2, <3>1, <3>2
  <2>3. CASE ~Leads(row) /\ loop.top = << >>
    BY <1>1, <2>3
  <2> QED
    BY <2>1, <2>2, <2>3
<1>10. ASSUME NEW k \in Held(f)', Polishing => rows'[k].round = 0
       PROVE  loop'.top # << >> /\ Score(rows'[k]) <= Score(loop'.top[1])
  <2>1. CASE k \in RowsOf(f) /\ rows'[k] = rows[k] /\ k \in Held(f)
    <3>1. loop.top # << >> /\ Score(rows[k]) <= Score(loop.top[1])
      BY <1>4, <1>10, <2>1
    <3>2. CASE Leads(row)
      <4>1. loop'.top = << row >> /\ Score(row) > Score(loop.top[1])
        BY <1>1, <1>8, <3>1, <3>2 DEF Leads
      <4>2. Score(loop'.top[1]) = Score(row) /\ loop'.top # << >>
        BY <4>1
      <4>3. Score(rows[k]) \in Int /\ Score(loop.top[1]) \in Int
        BY <1>7, <1>8, <2>1, <3>1
      <4> QED
        BY <1>6, <2>1, <3>1, <4>1, <4>2, <4>3
    <3>3. CASE ~Leads(row)
      BY <1>1, <2>1, <3>1, <3>3
    <3> QED
      BY <3>2, <3>3
  <2>2. CASE rows'[k] = row
    <3>1. row.acc /\ (Polishing => row.round = 0)
      BY <1>10, <2>2 DEF Held
    <3>2. ~(Polishing /\ row.round > 0)
      BY <3>1
    <3>3. CASE Leads(row)
      <4>1. loop'.top = << row >>
        BY <1>1, <3>3
      <4> QED
        BY <1>6, <2>2, <4>1
    <3>4. CASE ~Leads(row)
      <4>1. PICK i \in DOMAIN loop.top : ~(Score(row) > Score(loop.top[i]))
        BY <3>1, <3>2, <3>4 DEF Leads, Polishing
      <4>2. loop.top # << >>
        BY <4>1
      <4>3. i = 1 /\ Score(loop.top[1]) \in Int
        BY <1>8, <4>1, <4>2
      <4>4. Score(row) <= Score(loop.top[1])
        BY <1>6, <4>1, <4>3
      <4> QED
        BY <1>1, <2>2, <3>4, <4>2, <4>4
    <3> QED
      BY <3>3, <3>4
  <2> QED
    BY <2>1, <2>2, HeldBefore DEF Held
<1>11. \A k \in RowsOf(f)' : rows'[k].round <= loop'.round
  <2> SUFFICES ASSUME NEW k \in RowsOf(f)' PROVE rows'[k].round <= loop'.round
    OBVIOUS
  <2>1. CASE k \in RowsOf(f) /\ rows'[k] = rows[k]
    BY <1>1, <1>4, <2>1
  <2>2. CASE rows'[k] = row
    BY <1>1, <2>2
  <2> QED
    BY <2>1, <2>2, HeldBefore
<1>12. RowsOf(f)' # {} /\ loop'.fold = f /\ pc' # "ask"
  BY <1>1, <1>3
<1>13. /\ loop'.top = << >> \/ \E i \in Held(loop.fold)' : loop'.top = << rows'[i] >>
       /\ \A k \in Held(loop.fold)' : (Polishing' => rows'[k].round = 0) =>
               loop'.top # << >> /\ Score(rows'[k]) <= Score(loop'.top[1])
       /\ \A k \in RowsOf(loop.fold)' : rows'[k].round <= loop'.round
       /\ RowsOf(loop.fold)' # {}
  <2>1. RowsOf(loop.fold)' = RowsOf(f)' /\ Held(loop.fold)' = Held(f)'
    BY <1>12 DEF Held, RowsOf
  <2> QED
    BY <1>2, <1>9, <1>10, <1>11, <1>12, <2>1
<1> QED
  BY <1>12, <1>13 DEF Leading

\* The batch of a polish is recorded row by row.
LEMMA EmitClimbs ==
    ASSUME TypeOK, SearchInv, NEW row, Emitted(row), Training, Polishing, loop.round > 0,
           row.slice = "train", row.fold = loop.fold, Leading'
    PROVE  Climbing'
<1> USE DEF SearchInv
<1>1. /\ loop'.fold = loop.fold /\ loop'.round = loop.round /\ method' = method
      /\ loop'.trail = loop.trail /\ loop'.top = IF Leads(row) THEN << row >> ELSE loop.top
      /\ pc = "emit" /\ pc' = "emit" /\ Len(rows) \in Nat /\ DOMAIN rows = 1..Len(rows)
      /\ row \in Trials /\ row.round = loop.round /\ loop.round \in Nat
      /\ rows'[Len(rows) + 1] = row /\ DOMAIN rows' = 1..(Len(rows) + 1)
      /\ Len(rows') = Len(rows) + 1 /\ Len(loop'.todo) = Len(loop.todo) - 1
      /\ Len(loop.todo) \in Nat /\ loop.todo # << >>
  BY DEF Emitted, TypeOK, Typed
<1> PICK f : f = loop.fold
  OBVIOUS
<1>2. /\ loop.top # << >>
      /\ \A t \in DOMAIN loop.trail : \E i \in Held(f) : loop.trail[t].row = rows[i]
      /\ \A k \in Held(f) : rows[k].round > 0 /\ rows[k].round < loop.round =>
            \E t \in DOMAIN loop.trail : Score(rows[k]) <= Score(loop.trail[t].row)
      /\ Recorded \in 0..Len(rows)
      /\ \A k \in DOMAIN rows :
            k > Len(rows) - Recorded <=> (k \in RowsOf(f) /\ rows[k].round = loop.round)
  BY <1>1 DEF Climbing
<1>3. loop'.top # << >>
  BY <1>1, <1>2
<1>4. Recorded' = Recorded + 1
  <2>1. Active' = Active
    BY <1>1 DEF Active, Ranked
  <2>2. Len(Active) \in Nat
    <3>1. loop.trail \in Seq(Trajectories)
      BY DEF Typed, Trailing
    <3> QED
      BY <3>1, ActiveIs
  <2> QED
    BY <1>1, <2>1, <2>2 DEF Recorded
<1> PICK n \in Nat : n = Len(rows)
  BY <1>1
<1> PICK m \in 0..n : m = Recorded
  BY <1>2
<1>5. Recorded' \in 0..Len(rows')
  BY <1>1, <1>4
<1>6. \A t \in DOMAIN loop.trail : \E i \in Held(f)' : loop.trail[t].row = rows'[i]
  <2> SUFFICES ASSUME NEW t \in DOMAIN loop.trail
               PROVE  \E i \in Held(f)' : loop.trail[t].row = rows'[i]
    OBVIOUS
  <2>1. PICK i \in Held(f) : loop.trail[t].row = rows[i]
    BY <1>2
  <2>2. i \in Held(f)' /\ rows'[i] = rows[i]
    BY StillHeld DEF Held
  <2> QED
    BY <2>1, <2>2
<1>7. ASSUME NEW k \in Held(f)', rows'[k].round > 0, rows'[k].round < loop.round
      PROVE  \E t \in DOMAIN loop.trail : Score(rows'[k]) <= Score(loop.trail[t].row)
  <2>1. k \in Held(f) /\ rows'[k] = rows[k]
    BY <1>1, <1>7, HeldBefore DEF Held
  <2> QED
    BY <1>2, <1>7, <2>1
<1>8. ASSUME NEW k \in DOMAIN rows'
      PROVE  k > Len(rows') - Recorded' <=> (k \in RowsOf(f)' /\ rows'[k].round = loop.round)
  <2>1. Len(rows') - Recorded' = n - m
    BY <1>1, <1>4
  <2>2. CASE k = n + 1
    <3>1. k \in RowsOf(f)' /\ rows'[k] = row
      BY <1>1, <2>2, EmittedRows
    <3>2. k > n - m
      BY <2>2
    <3> QED
      BY <1>1, <2>1, <3>1, <3>2
  <2>3. CASE k \in 1..n
    <3>1. rows'[k] = rows[k] /\ (k \in RowsOf(f)' <=> k \in RowsOf(f))
      BY <2>3, EmittedRows DEF Emitted
    <3>2. k > n - m <=> (k \in RowsOf(f) /\ rows[k].round = loop.round)
      BY <1>1, <1>2, <2>3
    <3> QED
      BY <2>1, <3>1, <3>2
  <2> QED
    BY <1>1, <2>2, <2>3
<1>9. RowsOf(loop.fold)' = RowsOf(f)' /\ Held(loop.fold)' = Held(f)'
  BY <1>1 DEF Held, RowsOf
<1>10. /\ \A t \in DOMAIN loop'.trail : \E i \in Held(loop.fold)' : loop'.trail[t].row = rows'[i]
       /\ \A k \in Held(loop.fold)' : rows'[k].round > 0 /\ rows'[k].round < loop'.round =>
             \E t \in DOMAIN loop'.trail : Score(rows'[k]) <= Score(loop'.trail[t].row)
       /\ \A k \in DOMAIN rows' : k > Len(rows') - Recorded' <=>
             (k \in RowsOf(loop.fold)' /\ rows'[k].round = loop'.round)
  BY <1>1, <1>6, <1>7, <1>8, <1>9
<1> QED
  BY <1>3, <1>5, <1>10 DEF Climbing

\* Moving a row from one batch to another loses none.
LEMMA Shifted == ASSUME NEW n \in Nat, NEW m \in Nat PROVE (n + 1) + (m - 1) = n + m
  OBVIOUS

\* A trial is emitted.
LEMMA EmitKeeps == ASSUME IInv, SearchInv, EmitRow PROVE SearchInv'
<1> USE DEF SearchInv
<1>1. TypeOK
  BY DEF IInv
<1>2. PICK row : Emitted(row)
  BY <1>1, EmitIs
<1>3. /\ loop'.fold = loop.fold /\ loop'.round = loop.round /\ loop'.trail = loop.trail
      /\ UNCHANGED <<method, winners>> /\ pc = "emit" /\ pc' = "emit"
      /\ Len(rows) \in Nat /\ Len(loop.todo) \in Nat \ {0}
      /\ rows' \in Seq(Trials) /\ loop'.todo \in Seq(Evaluations)
      /\ Len(rows') = Len(rows) + 1 /\ Len(loop'.todo) = Len(loop.todo) - 1
      /\ row.fold = loop.todo[1].fold /\ row.slice = loop.todo[1].slice
  BY <1>2 DEF Emitted
<1>4. /\ Training' = Training /\ Crossing' = Crossing /\ Halving' = Halving
      /\ Polishing' = Polishing /\ Emitting' = 1 /\ Emitting = 1
  BY <1>3 DEF Training, Crossing, Halving, Polishing, Emitting
<1>5. /\ DOMAIN rows = 1..Len(rows) /\ DOMAIN rows' = 1..(Len(rows) + 1)
      /\ \A i \in 1..Len(rows) : rows'[i] = rows[i]
      /\ rows'[Len(rows) + 1] = row
      /\ DOMAIN loop.todo = 1..Len(loop.todo) /\ DOMAIN loop'.todo = 1..(Len(loop.todo) - 1)
      /\ \A i \in 1..(Len(loop.todo) - 1) : loop'.todo[i] = loop.todo[i + 1]
  BY <1>2 DEF Emitted
<1>6. Len(rows') + Len(loop'.todo) = Len(rows) + Len(loop.todo)
  BY <1>3, Shifted
<1>7. 1 \in DOMAIN loop.todo /\ \A i \in DOMAIN loop'.todo : i + 1 \in DOMAIN loop.todo
  BY <1>3, <1>5
<1>8. Training => row.slice = "train" /\ (~Halving => row.fold = loop.fold)
  BY <1>3, <1>7 DEF Phases
<1>9. Crossing => row.slice = "oos"
  BY <1>3, <1>7 DEF Phases
<1>10. loop.fold \in 0..NFolds /\ (Training \/ Crossing)
  BY <1>3, SizesAssumption DEF Typed, Training, Crossing
<1>11. Typed'
  <2>1. Training => Trailing'
    BY <1>3, <1>4 DEF Typed, Trailing
  <2> QED
    BY <1>3, <1>4, <2>1 DEF Typed
<1>12. Phases'
  <2>1. Training => \A i \in DOMAIN rows' : rows'[i].slice = "train"
    BY <1>3, <1>5, <1>8 DEF Phases
  <2>2. Training => \A i \in DOMAIN loop'.todo : loop'.todo[i].slice = "train"
    BY <1>5, <1>7 DEF Phases
  <2>3. Training /\ ~Halving => \A i \in DOMAIN rows' : rows'[i].fold <= loop.fold
    <3> SUFFICES ASSUME Training, ~Halving, NEW i \in DOMAIN rows' PROVE rows'[i].fold <= loop.fold
      OBVIOUS
    <3>1. CASE i \in DOMAIN rows
      BY <1>5, <3>1 DEF Phases
    <3>2. CASE i = Len(rows) + 1
      BY <1>5, <1>8, <1>10, <3>2
    <3> QED
      BY <1>3, <1>5, <3>1, <3>2
  <2>4. Training /\ ~Halving => /\ \A i \in DOMAIN loop'.todo : loop'.todo[i].fold = loop.fold
                                /\ Len(winners) = loop.fold - 1
    BY <1>5, <1>7 DEF Phases
  <2>5. Crossing => \A i \in DOMAIN loop'.todo : loop'.todo[i].slice = "oos"
    BY <1>5, <1>7 DEF Phases
  <2> QED
    BY <1>3, <1>4, <2>1, <2>2, <2>3, <2>4, <2>5 DEF Phases
<1>13. Rungs'
  BY <1>3, <1>4, <1>6 DEF Rungs
<1>14. Won'
  <2> SUFFICES ASSUME ~Halving, NEW w \in DOMAIN winners
               PROVE  /\ winners[w].fold = w
                      /\ \E i \in RowsOf(w)' :
                            /\ rows'[i].params = winners[w].params
                            /\ \A k \in RowsOf(w)' : Score(rows'[k]) <= Score(rows'[i])
    BY <1>3, <1>4 DEF Won
  <2>1. PICK i \in RowsOf(w) : /\ rows[i].params = winners[w].params
                               /\ \A k \in RowsOf(w) : Score(rows[k]) <= Score(rows[i])
    BY DEF Won
  <2>2. ~(row.fold = w /\ row.slice = "train")
    <3>1. w \in 1..Len(winners) /\ Len(winners) \in Nat
      BY DEF Typed
    <3>2. CASE Training
      <4>1. Len(winners) = loop.fold - 1 /\ row.fold = loop.fold
        BY <1>8, <3>2 DEF Phases
      <4> QED
        BY <1>10, <3>1, <4>1
    <3> QED
      BY <1>9, <1>10, <3>2
  <2>3. RowsOf(w)' = RowsOf(w)
    BY <1>2, <2>2, EmittedRows
  <2>4. \A k \in RowsOf(w) : rows'[k] = rows[k]
    BY <1>2, StillHeld
  <2> QED
    BY <2>1, <2>3, <2>4 DEF Won
<1>15. Leading'
  <2>1. CASE Training /\ ~Halving
    BY <1>1, <1>2, <1>8, <2>1, EmitLeads
  <2>2. CASE ~(Training /\ ~Halving)
    BY <1>4, <2>2 DEF Leading
  <2> QED
    BY <2>1, <2>2
<1>16. Climbing'
  <2>1. CASE Training /\ Polishing /\ loop.round > 0
    <3>1. ~Halving
      BY <2>1 DEF Polishing, Halving
    <3> QED
      BY <1>1, <1>2, <1>8, <1>15, <2>1, <3>1, EmitClimbs
  <2>2. CASE ~(Training /\ Polishing /\ loop.round > 0)
    BY <1>3, <1>4, <2>2 DEF Climbing
  <2> QED
    BY <2>1, <2>2
<1>17. Counted'
  <2>1. Exact' = Exact /\ Until(loop.fold, loop.round + Emitting)' = Until(loop.fold, loop.round + Emitting)
        /\ PlannedTrain' = PlannedTrain
    BY <1>3, <1>4 DEF Exact, Until, PlannedTrain
  <2>2. Crossing => Trained' = Trained
    <3> SUFFICES ASSUME Crossing PROVE Trained' = Trained
      OBVIOUS
    <3>1. row.slice # "train"
      BY <1>9
    <3>2. Trained' = {i \in 1..(Len(rows) + 1) : rows'[i].slice = "train"}
          /\ Trained = {i \in 1..Len(rows) : rows[i].slice = "train"}
      BY <1>5 DEF Trained
    <3>3. 1..(Len(rows) + 1) = (1..Len(rows)) \cup {Len(rows) + 1}
      BY <1>3
    <3> QED
      BY <1>5, <3>1, <3>2, <3>3
  <2>3. pc' \notin {"select", "close"} \cup Finishing
    BY <1>3 DEF Finishing
  <2>4. Training => /\ Len(rows) + Len(loop.todo) <= Until(loop.fold, loop.round + Emitting)
                    /\ Exact => Len(rows) + Len(loop.todo) = Until(loop.fold, loop.round + Emitting)
                    /\ method \in {"grid", "random"} => loop.round = 0
                    /\ method = "recursive_grid" => loop.round < MaxRounds
                    /\ Polishing => loop.round <= MaxPolishIters
                    /\ Polishing /\ loop.round > 0 => Len(loop.trail) <= TopKPolish
    BY DEF Counted
  <2>5. Crossing => /\ Cardinality(Trained) <= PlannedTrain
                    /\ Exact => Cardinality(Trained) = PlannedTrain
    BY DEF Counted
  <2> QED
    BY <1>3, <1>4, <1>6, <2>1, <2>2, <2>3, <2>4, <2>5 DEF Counted
<1> QED
  BY <1>11, <1>12, <1>13, <1>14, <1>15, <1>16, <1>17

\* Products of naturals are naturals.
LEMMA Product ==
    ASSUME NEW a \in Nat, NEW b \in Nat PROVE a * b \in Nat
  OBVIOUS

\* The rounds a fold may have end where the next fold begins.
LEMMA UntilNext ==
    ASSUME Typed, Counted, Training, ~Halving, loop.round \in Nat
    PROVE  /\ Until(loop.fold, loop.round + 1) \in Int /\ Until(loop.fold + 1, 0) \in Int
           /\ Until(loop.fold, loop.round + 1) <= Until(loop.fold + 1, 0)
           /\ Exact => Until(loop.fold, loop.round + 1) = Until(loop.fold + 1, 0)
<1> PICK f \in 1..NFolds : f = loop.fold
  BY DEF Typed, Training
<1> PICK n \in Nat : n = loop.round
  OBVIOUS
<1>1. f \in Nat /\ f - 1 \in Nat /\ f + 1 - 1 = f
  BY SizesAssumption
<1>2. CASE method \in {"grid", "random"}
  <2>1. n = 0
    BY <1>2 DEF Counted
  <2> PICK b \in Nat : b = IF method = "grid" THEN NParams ELSE Width
    BY SizesAssumption
  <2>2. Until(f, 0 + 1) = b * (f - 1 + (0 + 1)) /\ Until(f + 1, 0) = b * (f + 1 - 1 + 0)
    BY <1>2 DEF Until
  <2>3. f - 1 + (0 + 1) = f /\ f + 1 - 1 + 0 = f
    BY <1>1
  <2>4. b * f \in Nat
    BY <1>1, Product
  <2> QED
    BY <2>1, <2>2, <2>3, <2>4
<1>3. CASE method = "recursive_grid"
  <2>1. Width \in Nat /\ MaxRounds \in Nat /\ n + 1 <= MaxRounds /\ ~Exact
    BY <1>3, SizesAssumption DEF Counted, Exact
  <2>2. Until(f, n + 1) = Width * (MaxRounds * (f - 1) + (n + 1))
        /\ Until(f + 1, 0) = Width * (MaxRounds * (f + 1 - 1) + 0)
    BY <1>3 DEF Until
  <2>3. /\ MaxRounds * (f - 1) \in Nat /\ MaxRounds * f \in Nat
        /\ MaxRounds * f = MaxRounds * (f - 1) + MaxRounds
    BY <1>1, <2>1
  <2> PICK x \in Nat : x = MaxRounds * (f - 1) + (n + 1)
    BY <2>3
  <2> PICK y \in Nat : y = MaxRounds * f
    BY <2>3
  <2>4. x <= y
    BY <2>1, <2>3
  <2>5. Until(f, n + 1) = Width * x /\ Until(f + 1, 0) = Width * y
    BY <1>1, <2>2
  <2> QED
    BY <2>1, <2>4, <2>5, Times
<1>4. CASE Polishing
  <2>1. /\ TopKPolish \in Nat /\ MaxPolishIters \in Nat /\ Width \in Nat /\ n <= MaxPolishIters
        /\ ~Exact
    BY <1>4, SizesAssumption DEF Counted, Exact, Polishing
  <2> DEFINE t == TopKPolish * 2
  <2>2. t \in Nat
    BY <2>1
  <2> HIDE DEF t
  <2>3. t * n <= t * MaxPolishIters /\ t * n \in Int /\ t * MaxPolishIters \in Int
    BY <2>1, <2>2, Times
  <2> PICK u \in Int : u = t * n
    BY <2>3
  <2> PICK v \in Int : v = t * MaxPolishIters
    BY <2>3
  <2> PICK c \in Int : c = Width + v
    BY <2>1
  <2>4. Until(f, n + 1) = c * (f - 1) + (Width + u)
    <3>1. Until(f, n + 1) = (Width + t * MaxPolishIters) * (f - 1)
                + (IF n + 1 = 0 THEN 0 ELSE Width + t * (n + 1 - 1))
      BY <1>4 DEF Until, Polishing, t
    <3>2. n + 1 # 0 /\ n + 1 - 1 = n
      OBVIOUS
    <3> QED
      BY <3>1, <3>2
  <2>5. Until(f + 1, 0) = c * f + 0
    <3>1. Until(f + 1, 0) = (Width + t * MaxPolishIters) * (f + 1 - 1) + 0
      BY <1>4 DEF Until, Polishing, t
    <3> QED
      BY <1>1, <3>1
  <2>6. c * f = c * (f - 1) + c /\ c * (f - 1) \in Int /\ c * f \in Int
    BY <1>1
  <2>7. u <= v
    BY <2>3
  <2> QED
    BY <2>1, <2>4, <2>5, <2>6, <2>7
<1> QED
  BY <1>2, <1>3, <1>4, MethodsAssumption DEF Typed, SearchMethods, Polishing, Halving

\* At the end of the last fold the search has done what was announced.
LEMMA UntilEnd == ASSUME method \in Methods, ~Halving PROVE Until(NFolds + 1, 0) = PlannedTrain
<1>1. NFolds \in Nat /\ NFolds + 1 - 1 = NFolds /\ NParams \in Nat /\ Width \in Nat
      /\ MaxRounds \in Nat /\ TopKPolish \in Nat /\ MaxPolishIters \in Nat
  BY SizesAssumption
<1>2. CASE method = "grid"
  BY <1>1, <1>2 DEF Until, PlannedTrain
<1>3. CASE method = "random"
  BY <1>1, <1>3 DEF Until, PlannedTrain
<1> PICK f \in Nat : f = NFolds
  BY <1>1
<1>4. CASE method = "recursive_grid"
  <2>1. Until(f + 1, 0) = Width * (MaxRounds * (f + 1 - 1) + 0)
    BY <1>4 DEF Until
  <2>2. MaxRounds * f \in Nat /\ f + 1 - 1 = f
    BY <1>1
  <2>3. Until(f + 1, 0) = Width * (MaxRounds * f)
    BY <2>1, <2>2
  <2>4. Width * (MaxRounds * f) = Width * MaxRounds * f
    BY <1>1
  <2> QED
    BY <1>4, <2>3, <2>4 DEF PlannedTrain
<1>5. CASE method = "lhs_polish"
  <2> DEFINE c == Width + TopKPolish * 2 * MaxPolishIters
  <2>1. Until(f + 1, 0) = c * (f + 1 - 1) + 0
    BY <1>5 DEF Until
  <2>2. c \in Nat
    BY <1>1
  <2>3. PlannedTrain = c * f
    BY <1>5 DEF PlannedTrain
  <2> HIDE DEF c
  <2>4. c * f \in Nat /\ f + 1 - 1 = f
    BY <2>2
  <2> QED
    BY <2>1, <2>3, <2>4
<1> QED
  BY <1>2, <1>3, <1>4, <1>5, MethodsAssumption DEF SearchMethods, Halving

\* What is known at the end of a training batch.
LEMMA EndingIs ==
    ASSUME IInv, SearchInv, BatchDone, loop.fold > 0
    PROVE  /\ TypeOK /\ Training /\ pc = "emit" /\ loop.todo = << >> /\ Len(loop.todo) = 0
           /\ loop.round \in Nat /\ loop.fold \in 1..NFolds /\ method \in Methods
           /\ rows \in Seq(Trials) /\ Len(rows) \in Nat /\ DOMAIN rows = 1..Len(rows)
           /\ Trained = 1..Len(rows) /\ Cardinality(Trained) = Len(rows)
           /\ Len(rows) <= Until(loop.fold, loop.round + 1)
           /\ Exact => Len(rows) = Until(loop.fold, loop.round + 1)
           /\ ~Halving => RowsOf(loop.fold) # {}
<1> USE DEF SearchInv
<1>1. TypeOK /\ pc = "emit" /\ loop.todo = << >> /\ loop.round \in Nat
  BY DEF IInv, TypeOK, BatchDone
<1>2. /\ Training /\ loop.fold \in 1..NFolds /\ method \in Methods
      /\ rows \in Seq(Trials) /\ Len(rows) \in Nat /\ DOMAIN rows = 1..Len(rows)
  BY <1>1, SizesAssumption DEF Typed, Training
<1>3. Len(loop.todo) = 0
  BY <1>1
<1>4. Trained = 1..Len(rows) /\ Cardinality(Trained) = Len(rows)
  <2>1. Trained = 1..Len(rows)
    BY <1>2 DEF Trained, Phases
  <2> QED
    BY <1>2, <2>1, Upto
<1>5. Len(rows) + 0 <= Until(loop.fold, loop.round + 1)
      /\ (Exact => Len(rows) + 0 = Until(loop.fold, loop.round + 1))
  BY <1>1, <1>2, <1>3 DEF Counted, Emitting
<1>6. Len(rows) + 0 = Len(rows)
  BY <1>2
<1>7. ~Halving => RowsOf(loop.fold) # {}
  BY <1>1, <1>2 DEF Leading
<1> QED
  BY <1>1, <1>2, <1>3, <1>4, <1>5, <1>6, <1>7

\* A fold that ends with its best trial keeps the invariant.
LEMMA ConcludeKeeps ==
    ASSUME IInv, SearchInv, BatchDone, loop.fold > 0, ~Halving, UNCHANGED <<method, rows>>,
           NEW i \in RowsOf(loop.fold), \A k \in RowsOf(loop.fold) : Score(rows[k]) <= Score(rows[i]),
           NEW winner, winner = [fold |-> loop.fold, params |-> rows[i].params],
           Conclude(winner)
    PROVE  SearchInv'
<1> USE DEF SearchInv
<1>1. /\ TypeOK /\ Training /\ pc = "emit" /\ loop.round \in Nat
      /\ loop.fold \in 1..NFolds /\ method \in Methods
      /\ rows \in Seq(Trials) /\ Len(rows) \in Nat /\ DOMAIN rows = 1..Len(rows)
      /\ Cardinality(Trained) = Len(rows)
      /\ Len(rows) <= Until(loop.fold, loop.round + 1)
      /\ Exact => Len(rows) = Until(loop.fold, loop.round + 1)
  BY EndingIs
<1> PICK f \in 1..NFolds : f = loop.fold
  BY <1>1
<1>2. f \in Nat /\ NFolds \in Nat
  BY SizesAssumption
<1>3. winner \in Winners /\ winner.fold = f /\ winner.params = rows[i].params
  <2>1. rows[i] \in Trials
    BY <1>1 DEF RowsOf
  <2>2. rows[i].params \in Params
    BY <2>1 DEF Trials
  <2> QED
    BY <1>2, <2>2 DEF Winners
<1>4. winners \in Seq(Winners) /\ Len(winners) = f - 1
  BY <1>1 DEF Typed, Phases
<1>5. /\ winners' \in Seq(Winners) /\ Len(winners') = f /\ DOMAIN winners' = 1..f
      /\ \A w \in 1..(f - 1) : winners'[w] = winners[w]
      /\ winners'[f] = winner /\ DOMAIN winners = 1..(f - 1)
  <2>1. winners' = Append(winners, winner)
    BY DEF Conclude
  <2>2. f - 1 + 1 = f
    BY <1>2
  <2> QED
    BY <1>3, <1>4, <2>1, <2>2
<1>6. /\ loop'.round = 0 /\ loop'.todo = << >> /\ loop'.top = << >> /\ loop'.trail = << >>
      /\ \/ f < NFolds /\ pc' = "ask" /\ loop'.fold = f + 1
         \/ f = NFolds /\ pc' = "cross" /\ loop'.fold = 0
  <2>1. CASE f < NFolds
    <3>1. pc' = "ask" /\ loop' = Fresh(f + 1)
      BY <2>1 DEF Conclude
    <3> PICK g : g = f + 1
      OBVIOUS
    <3>2. loop' = Fresh(g)
      BY <3>1
    <3>3. loop'.fold = g /\ loop'.round = 0 /\ loop'.todo = << >> /\ loop'.top = << >> /\ loop'.trail = << >>
      BY <3>2 DEF Fresh
    <3> QED
      BY <2>1, <3>1, <3>3
  <2>2. CASE ~(f < NFolds)
    <3>1. pc' = "cross" /\ loop' = Fresh(0)
      BY <2>2 DEF Conclude
    <3>2. loop'.fold = 0 /\ loop'.round = 0 /\ loop'.todo = << >> /\ loop'.top = << >> /\ loop'.trail = << >>
      BY <3>1 DEF Fresh
    <3>3. f = NFolds
      BY <1>2, <2>2
    <3> QED
      BY <3>1, <3>2, <3>3
  <2> QED
    BY <2>1, <2>2
<1>7. ~Halving' /\ Polishing' = Polishing /\ Exact' = Exact /\ (Training' <=> f < NFolds)
      /\ (Crossing' <=> f = NFolds) /\ Len(loop'.todo) = 0 /\ DOMAIN loop'.todo = {}
      /\ (Training' => Emitting' = 0 /\ loop'.fold = f + 1)
  BY <1>2, <1>6 DEF Halving, Polishing, Exact, Training, Crossing, Emitting
<1>8. Typed'
  <2>1. Trailing'
    BY <1>6, <1>7 DEF Trailing
  <2>2. loop'.todo \in Seq(Evaluations) /\ loop'.fold \in 0..NFolds
    BY <1>2, <1>6
  <2>3. /\ pc' = "ask" => loop'.fold > 0
        /\ pc' = "cross" => loop'.fold = 0
    BY <1>2, <1>6
  <2> QED
    BY <1>1, <1>5, <1>6, <2>1, <2>2, <2>3 DEF Typed
<1>9. \A k \in DOMAIN rows : rows[k].slice = "train" /\ rows[k].fold <= f
  BY <1>1 DEF Phases
<1>10. \A k \in DOMAIN rows : rows[k].fold \in Int
  <2> TAKE k \in DOMAIN rows
  <2>1. rows[k] \in Trials
    BY <1>1
  <2>2. rows[k].fold \in Folds
    BY <2>1 DEF Trials
  <2> QED
    BY <1>2, <2>2 DEF Folds
<1>11. \A k \in DOMAIN rows : rows[k].fold <= f + 1 /\ rows[k].fold # f + 1
  BY <1>2, <1>9, <1>10
<1>12. Phases'
  <2>1. Training' => Len(winners') = loop'.fold - 1
    BY <1>2, <1>5, <1>7
  <2>2. pc' \notin {"idle", "index"}
    BY <1>6
  <2> QED
    BY <1>7, <1>9, <1>11, <2>1, <2>2 DEF Phases
<1>13. Rungs'
  BY <1>7 DEF Rungs
<1>14. Won'
  <2> SUFFICES ASSUME NEW w \in 1..f
               PROVE  /\ winners'[w].fold = w
                      /\ \E j \in RowsOf(w) :
                            /\ rows[j].params = winners'[w].params
                            /\ \A k \in RowsOf(w) : Score(rows[k]) <= Score(rows[j])
    BY <1>5 DEF Won, RowsOf
  <2>1. CASE w = f
    BY <1>3, <1>5, <2>1
  <2>2. CASE w # f
    <3>1. w \in 1..(f - 1)
      BY <1>2, <2>2
    <3> QED
      BY <1>5, <3>1 DEF Won
  <2> QED
    BY <2>1, <2>2
<1>15. Leading' /\ Climbing'
  <2>1. Climbing'
    BY <1>6 DEF Climbing
  <2>2. CASE Training'
    <3>1. RowsOf(loop.fold)' = {}
      BY <1>7, <1>11, <2>2 DEF RowsOf
    <3>2. Held(loop.fold)' = {}
      BY <3>1 DEF Held
    <3> QED
      BY <1>6, <1>7, <2>1, <2>2, <3>1, <3>2 DEF Leading, Training
  <2>3. CASE ~Training'
    BY <2>1, <2>3 DEF Leading
  <2> QED
    BY <2>2, <2>3
<1>16. Len(rows) <= Until(f + 1, 0) /\ (Exact => Len(rows) = Until(f + 1, 0))
  BY <1>1, UntilNext
<1>17. Counted'
  <2>1. CASE f < NFolds
    <3>1. /\ Training' /\ ~Crossing' /\ loop'.fold = f + 1 /\ Emitting' = 0
          /\ loop'.round + Emitting' = 0
      BY <1>6, <1>7, <2>1
    <3>2. Until(loop.fold, loop.round + Emitting)' = Until(f + 1, 0)
      BY <3>1 DEF Until
    <3>3. Len(rows') + Len(loop'.todo) = Len(rows)
      BY <1>1, <1>7
    <3>4. pc' \notin {"select", "close"} \cup Finishing
      BY <1>6 DEF Finishing
    <3>5. 0 < MaxRounds /\ 0 <= MaxPolishIters /\ ~(0 > 0)
      BY SizesAssumption
    <3> QED
      BY <1>6, <1>7, <1>16, <3>1, <3>2, <3>3, <3>4, <3>5 DEF Counted
  <2>2. CASE f = NFolds
    <3>1. ~Training'
      BY <1>7, <2>2
    <3>2. Len(rows) <= PlannedTrain /\ (Exact => Len(rows) = PlannedTrain)
      BY <1>1, <1>16, <2>2, UntilEnd
    <3>3. PlannedTrain' = PlannedTrain /\ Trained' = Trained
      BY DEF PlannedTrain, Trained
    <3> QED
      BY <1>1, <1>7, <3>1, <3>2, <3>3 DEF Counted
  <2> QED
    BY <1>2, <2>1, <2>2
<1> QED
  BY <1>8, <1>12, <1>13, <1>14, <1>15, <1>17

\* o lists the places of s that are in S, the best trials first.
RanksTrials(o, S, s) ==
    /\ Cardinality(S) \in Nat /\ o \in [1..Cardinality(S) -> S]
    /\ \A k, l \in 1..Cardinality(S) : k < l =>
          Score(s[o[l]]) <= Score(s[o[k]]) /\ o[k] # o[l]
    /\ \A i \in S : \E k \in 1..Cardinality(S) : o[k] = i

\* Ranked by score, trials come best first.
LEMMA RankedTrials ==
    ASSUME NEW s \in Seq(Trials), NEW S \in SUBSET DOMAIN s
    PROVE  /\ RanksTrials(Ranked(S, LAMBDA i, k : Score(s[i]) > Score(s[k])), S, s)
           /\ IsFiniteSet(S)
<1> DEFINE f == [i \in S |-> Score(s[i])]
           A == {p \in S \X S : f[p[1]] > f[p[2]]}
           o == Ranked(S, LAMBDA i, k : Score(s[i]) > Score(s[k]))
<1>1. S \in SUBSET Nat /\ IsFiniteSet(S) /\ \A i \in S : s[i] \in Trials
  <2>1. DOMAIN s \in SUBSET Nat /\ IsFiniteSet(DOMAIN s) /\ \A i \in DOMAIN s : s[i] \in Trials
    BY Places
  <2> QED
    BY <2>1, FS_Subset
<1>2. \A i \in S : f[i] \in Int /\ f[i] = Score(s[i])
  BY <1>1, ScoreIs
<1>3. o = Ordered(S, Stably(S, A))
  <2>1. Stably(S, A) = {p \in S \X S : \/ Score(s[p[1]]) > Score(s[p[2]])
                                       \/ (~(Score(s[p[2]]) > Score(s[p[1]])) /\ p[1] < p[2])}
    BY <1>2 DEF Stably
  <2> QED
    BY <2>1 DEF Ranked
<1> HIDE DEF f, o
<1>4. OrdersWeakly(A, S)
  BY <1>2, KeyOrders
<1>5. \A i, k \in S : <<i, k>> \notin A => f[i] <= f[k]
  BY <1>2
<1> HIDE DEF A
<1>6. Enumerates(o, S, A)
  BY <1>1, <1>3, <1>4, StablyIs
<1>7. /\ Cardinality(S) \in Nat /\ o \in [1..Cardinality(S) -> S]
      /\ \A i \in S : \E k \in 1..Cardinality(S) : o[k] = i
      /\ \A k, l \in 1..Cardinality(S) : k < l => <<o[l], o[k]>> \notin A /\ o[k] # o[l]
  BY <1>6 DEF Enumerates
<1>8. \A k, l \in 1..Cardinality(S) : k < l => f[o[l]] <= f[o[k]] /\ o[k] # o[l]
  <2> SUFFICES ASSUME NEW k \in 1..Cardinality(S), NEW l \in 1..Cardinality(S), k < l
               PROVE  f[o[l]] <= f[o[k]] /\ o[k] # o[l]
    OBVIOUS
  <2>1. o[k] \in S /\ o[l] \in S /\ <<o[l], o[k]>> \notin A /\ o[k] # o[l]
    BY <1>7
  <2> QED
    BY <1>5, <2>1
<1>9. \A k \in 1..Cardinality(S) : f[o[k]] = Score(s[o[k]])
  BY <1>2, <1>7
<1>10. RanksTrials(o, S, s)
  BY <1>7, <1>8, <1>9 DEF RanksTrials
<1> QED
  BY <1>1, <1>10 DEF o

\* The first of the trials that are ranked is the best.
LEMMA BestTrialIs ==
    ASSUME NEW s \in Seq(Trials), NEW S \in SUBSET DOMAIN s, S # {}, NEW o, RanksTrials(o, S, s)
    PROVE  o[1] \in S /\ \A i \in S : Score(s[i]) <= Score(s[o[1]])
<1> DEFINE n == Cardinality(S)
<1>1. /\ n \in Nat /\ o \in [1..n -> S] /\ \A i \in S : \E k \in 1..n : o[k] = i
      /\ \A k, l \in 1..n : k < l => Score(s[o[l]]) <= Score(s[o[k]])
  BY DEF RanksTrials
<1> HIDE DEF n
<1>2. 1 \in 1..n
  BY <1>1
<1>3. o[1] \in S
  BY <1>1, <1>2
<1>4. s[o[1]] \in Trials
  BY <1>3
<1>5. Score(s[o[1]]) \in Int
  BY <1>4, ScoreIs
<1>6. ASSUME NEW i \in S PROVE Score(s[i]) <= Score(s[o[1]])
  <2>1. PICK k \in 1..n : o[k] = i
    BY <1>1
  <2>2. CASE k = 1
    BY <1>5, <2>1, <2>2
  <2>3. CASE k # 1
    BY <1>1, <1>2, <2>1, <2>3
  <2> QED
    BY <2>2, <2>3
<1> QED
  BY <1>3, <1>6

\* Ranking rows by score leaves out and repeats none, best first.
LEMMA RankedRows ==
    ASSUME rows \in Seq(Trials), NEW S \in SUBSET DOMAIN rows
    PROVE  RanksTrials(Ranked(S, ByScore), S, rows)
<1>1. Ranked(S, ByScore) = Ranked(S, LAMBDA i, k : Score(rows[i]) > Score(rows[k]))
  BY DEF Ranked, ByScore
<1> QED
  BY <1>1, RankedTrials

\* The best trial of the fold, or the first of equals.
LEMMA WinnerIs ==
    ASSUME IInv, SearchInv, BatchDone, loop.fold > 0, ~Halving, Polishing => loop.round = 0
    PROVE  \E i \in RowsOf(loop.fold) :
              /\ Winner(loop.top) = [fold |-> loop.fold, params |-> rows[i].params]
              /\ \A k \in RowsOf(loop.fold) : Score(rows[k]) <= Score(rows[i])
<1> USE DEF SearchInv
<1>1. /\ Training /\ loop.round \in Nat /\ rows \in Seq(Trials) /\ Len(rows) \in Nat
      /\ DOMAIN rows = 1..Len(rows) /\ RowsOf(loop.fold) # {}
  BY EndingIs
<1> PICK f : f = loop.fold
  OBVIOUS
<1>2. \A k \in RowsOf(f) : rows[k] \in Trials
  BY <1>1 DEF RowsOf
<1>3. \A k \in RowsOf(f) : /\ Score(rows[k]) \in Int /\ Score(rows[k]) >= NegInf
                           /\ k \notin Held(f) => Score(rows[k]) = NegInf
  BY <1>2, ScoreIs DEF Held
<1>4. \A k \in Held(f) : loop.top # << >> /\ Score(rows[k]) <= Score(loop.top[1])
  <2>1. \A k \in Held(f) : k \in RowsOf(f) /\ rows[k].round \in Nat
    BY <1>2 DEF Held, Trials
  <2>2. \A k \in RowsOf(f) : rows[k].round <= loop.round
    BY <1>1 DEF Leading
  <2>3. \A k \in Held(f) : Polishing => rows[k].round = 0
    BY <2>1, <2>2
  <2>4. \A k \in Held(f) : (Polishing => rows[k].round = 0) =>
              loop.top # << >> /\ Score(rows[k]) <= Score(loop.top[1])
    BY <1>1 DEF Leading
  <2> QED
    BY <2>3, <2>4
<1>5. CASE loop.top # << >>
  <2>1. PICK i \in Held(f) : loop.top = << rows[i] >>
    BY <1>1, <1>5 DEF Leading
  <2>2. loop.top[1] = rows[i] /\ i \in RowsOf(f)
    BY <2>1 DEF Held
  <2>3. Winner(loop.top) = [fold |-> loop.fold, params |-> rows[i].params]
    BY <1>5, <2>2 DEF Winner
  <2>4. \A k \in RowsOf(f) : Score(rows[k]) <= Score(rows[i])
    <3> TAKE k \in RowsOf(f)
    <3>1. CASE k \in Held(f)
      BY <1>4, <2>2, <3>1
    <3>2. CASE k \notin Held(f)
      BY <1>3, <2>2, <3>2, ClampAssumption
    <3> QED
      BY <3>1, <3>2
  <2> QED
    BY <2>2, <2>3, <2>4
<1>6. CASE loop.top = << >>
  <2> DEFINE o == Ranked(RowsOf(f), ByScore)
  <2>1. RowsOf(f) \in SUBSET DOMAIN rows
    BY DEF RowsOf
  <2>2. RanksTrials(o, RowsOf(f), rows)
    BY <1>1, <2>1, RankedRows
  <2>3. Winner(loop.top) = [fold |-> loop.fold, params |-> rows[o[1]].params]
    BY <1>6 DEF Winner
  <2> HIDE DEF o
  <2>4. o[1] \in RowsOf(f) /\ \A k \in RowsOf(f) : Score(rows[k]) <= Score(rows[o[1]])
    BY <1>1, <2>1, <2>2, BestTrialIs
  <2> QED
    BY <2>3, <2>4
<1> QED
  BY <1>5, <1>6

\* Polishing: the trajectories lead what the rounds so far have accepted.
GoesOn(trail) ==
    /\ trail \in Seq(Trajectories) /\ Len(trail) <= TopKPolish /\ loop.round + 1 <= MaxPolishIters
    /\ loop.top # << >>
    /\ \A t \in DOMAIN trail : \E i \in Held(loop.fold) : trail[t].row = rows[i]
    /\ \A k \in Held(loop.fold) : rows[k].round > 0 =>
          \E t \in DOMAIN trail : Score(rows[k]) <= Score(trail[t].row)

\* A search that goes on with the same fold keeps the invariant.
LEMMA NextRoundKeeps ==
    ASSUME IInv, SearchInv, BatchDone, loop.fold > 0, UNCHANGED <<method, rows>>,
           method \in {"recursive_grid", "lhs_polish"},
           method = "recursive_grid" => loop.round + 1 < MaxRounds,
           NEW trail, NextRound(trail), Polishing => GoesOn(trail)
    PROVE  SearchInv'
<1> USE DEF SearchInv
<1>1. /\ TypeOK /\ Training /\ pc = "emit" /\ loop.todo = << >> /\ loop.round \in Nat
      /\ loop.fold \in 1..NFolds /\ method \in Methods
      /\ rows \in Seq(Trials) /\ Len(rows) \in Nat /\ DOMAIN rows = 1..Len(rows)
      /\ Len(rows) <= Until(loop.fold, loop.round + 1)
      /\ Exact => Len(rows) = Until(loop.fold, loop.round + 1)
      /\ ~Halving /\ RowsOf(loop.fold) # {} /\ Len(loop.todo) = 0
  <2>1. ~Halving
    BY DEF Halving
  <2> QED
    BY <2>1, EndingIs
<1>2. /\ loop'.fold = loop.fold /\ loop'.round = loop.round + 1 /\ loop'.todo = loop.todo
      /\ loop'.top = loop.top /\ loop'.trail = trail /\ pc' = "ask" /\ winners' = winners
  BY <1>1, NextRoundFields
<1>3. Training' /\ ~Crossing' /\ ~Halving' /\ Polishing' = Polishing /\ Exact' = Exact /\ Emitting' = 0
  BY <1>1, <1>2 DEF Training, Crossing, Halving, Polishing, Exact, Emitting
<1>4. Typed'
  <2>1. Trailing'
    BY <1>2, <1>3 DEF Trailing, GoesOn
  <2>2. loop'.fold > 0 /\ pc' # "cross" /\ loop'.todo = << >>
    BY <1>1, <1>2
  <2> QED
    BY <1>2, <1>3, <2>1, <2>2 DEF Typed
<1>5. Phases' /\ Rungs'
  BY <1>1, <1>2, <1>3 DEF Phases, Rungs
<1>6. Won'
  <2>1. winners' = winners /\ rows' = rows /\ ~Halving
    BY <1>1, <1>2
  <2> QED
    BY <2>1 DEF Won, RowsOf
<1>7. RowsOf(loop.fold)' = RowsOf(loop.fold) /\ Held(loop.fold)' = Held(loop.fold)
  BY <1>2 DEF RowsOf, Held
<1>8. \A k \in RowsOf(loop.fold) : rows[k].round \in Nat
  <2> TAKE k \in RowsOf(loop.fold)
  <2>1. rows[k] \in Trials
    BY <1>1 DEF RowsOf
  <2> QED
    BY <2>1 DEF Trials
<1>9. \A k \in RowsOf(loop.fold) : rows[k].round < loop.round + 1 /\ rows[k].round <= loop.round + 1
  <2>1. \A k \in RowsOf(loop.fold) : rows[k].round <= loop.round
    BY <1>1 DEF Leading
  <2> QED
    BY <1>1, <1>8, <2>1
<1>10. Leading'
  <2>1. /\ loop.top = << >> \/ \E i \in Held(loop.fold) : loop.top = << rows[i] >>
        /\ \A k \in Held(loop.fold) : (Polishing => rows[k].round = 0) =>
              loop.top # << >> /\ Score(rows[k]) <= Score(loop.top[1])
    BY <1>1 DEF Leading
  <2>2. /\ loop'.top = << >> \/ \E i \in Held(loop.fold)' : loop'.top = << rows'[i] >>
        /\ \A k \in Held(loop.fold)' : (Polishing' => rows'[k].round = 0) =>
              loop'.top # << >> /\ Score(rows'[k]) <= Score(loop'.top[1])
    BY <1>2, <1>3, <1>7, <2>1
  <2>3. \A k \in RowsOf(loop.fold)' : rows'[k].round <= loop'.round /\ rows'[k].round < loop'.round
    BY <1>2, <1>7, <1>9
  <2>4. RowsOf(loop.fold)' # {}
    BY <1>1, <1>7
  <2> QED
    BY <2>2, <2>3, <2>4 DEF Leading
<1>11. Climbing'
  <2>1. CASE Polishing
    <3>1. /\ loop'.top # << >>
          /\ \A t \in DOMAIN loop'.trail : \E i \in Held(loop.fold)' : loop'.trail[t].row = rows'[i]
          /\ \A k \in Held(loop.fold)' : rows'[k].round > 0 =>
                \E t \in DOMAIN loop'.trail : Score(rows'[k]) <= Score(loop'.trail[t].row)
      BY <1>2, <1>7, <2>1 DEF GoesOn
    <3>2. pc' # "emit"
      BY <1>2
    <3> QED
      BY <3>1, <3>2 DEF Climbing
  <2>2. CASE ~Polishing
    BY <1>3, <2>2 DEF Climbing
  <2> QED
    BY <2>1, <2>2
<1>12. Counted'
  <2>1. loop'.round + Emitting' = loop.round + 1
    BY <1>1, <1>2, <1>3
  <2>2. Until(loop.fold, loop.round + Emitting)' = Until(loop.fold, loop.round + 1)
    BY <1>2, <2>1 DEF Until
  <2>3. Len(rows') + Len(loop'.todo) = Len(rows)
    BY <1>1, <1>2
  <2>4. pc' \notin {"select", "close"} \cup Finishing
    BY <1>2 DEF Finishing
  <2>5. method' \notin {"grid", "random"} /\ method' = method
    OBVIOUS
  <2>6. Polishing => Len(trail) <= TopKPolish /\ loop.round + 1 <= MaxPolishIters
    BY DEF GoesOn
  <2> QED
    BY <1>1, <1>2, <1>3, <2>2, <2>3, <2>4, <2>5, <2>6 DEF Counted
<1> QED
  BY <1>4, <1>5, <1>6, <1>10, <1>11, <1>12

\* One batch a fold.
LEMMA EndOneShotKeeps == ASSUME IInv, SearchInv, EndOneShot PROVE SearchInv'
<1>1. /\ BatchDone /\ loop.fold > 0 /\ method \in {"grid", "random"}
      /\ Conclude(Winner(loop.top)) /\ UNCHANGED <<method, rows>>
  BY DEF EndOneShot
<1>2. ~Halving /\ ~Polishing
  BY <1>1 DEF Halving, Polishing
<1>3. PICK i \in RowsOf(loop.fold) :
        /\ Winner(loop.top) = [fold |-> loop.fold, params |-> rows[i].params]
        /\ \A k \in RowsOf(loop.fold) : Score(rows[k]) <= Score(rows[i])
  BY <1>1, <1>2, WinnerIs
<1> QED
  BY <1>1, <1>2, <1>3, ConcludeKeeps

\* A round of a method that may go on.
LEMMA EndRoundKeeps == ASSUME IInv, SearchInv, EndRound PROVE SearchInv'
<1>1. /\ BatchDone /\ loop.fold > 0 /\ method = "recursive_grid" /\ UNCHANGED <<method, rows>>
      /\ \/ loop.round + 1 < MaxRounds /\ NextRound(loop.trail)
         \/ Conclude(Winner(loop.top))
  BY DEF EndRound
<1>2. ~Halving /\ ~Polishing
  BY <1>1 DEF Halving, Polishing
<1>3. CASE loop.round + 1 < MaxRounds /\ NextRound(loop.trail)
  BY <1>1, <1>2, <1>3, NextRoundKeeps
<1>4. CASE Conclude(Winner(loop.top))
  <2>1. PICK i \in RowsOf(loop.fold) :
          /\ Winner(loop.top) = [fold |-> loop.fold, params |-> rows[i].params]
          /\ \A k \in RowsOf(loop.fold) : Score(rows[k]) <= Score(rows[i])
    BY <1>1, <1>2, WinnerIs
  <2> QED
    BY <1>1, <1>2, <1>4, <2>1, ConcludeKeeps
<1> QED
  BY <1>1, <1>3, <1>4

\* The first batch of a polish: the best trials start a trajectory each.
LEMMA EndSeedingKeeps == ASSUME IInv, SearchInv, EndSeeding PROVE SearchInv'
<1> DEFINE accepted == {i \in RowsOf(loop.fold) : rows[i].acc}
           starts == Prefix(Ranked(accepted, ByScore), TopKPolish)
           trail == [k \in DOMAIN starts |-> Trajectory(rows[starts[k]])]
<1>1. /\ BatchDone /\ loop.fold > 0 /\ method = "lhs_polish" /\ loop.round = 0
      /\ UNCHANGED <<method, rows>>
      /\ IF accepted = {} THEN Conclude(Winner(loop.top)) ELSE NextRound(trail)
  BY DEF EndSeeding
<1>2. ~Halving /\ Polishing /\ accepted = Held(loop.fold)
  BY <1>1 DEF Halving, Polishing, Held
<1> HIDE DEF accepted
<1>3. CASE accepted = {}
  <2>1. PICK i \in RowsOf(loop.fold) :
          /\ Winner(loop.top) = [fold |-> loop.fold, params |-> rows[i].params]
          /\ \A k \in RowsOf(loop.fold) : Score(rows[k]) <= Score(rows[i])
    BY <1>1, <1>2, WinnerIs
  <2>2. Conclude(Winner(loop.top))
    BY <1>1, <1>3
  <2> QED
    BY <1>1, <1>2, <2>1, <2>2, ConcludeKeeps
<1>4. CASE accepted # {}
  <2> DEFINE o == Ranked(accepted, ByScore)
             n == Cardinality(accepted)
  <2>1. /\ rows \in Seq(Trials) /\ DOMAIN rows = 1..Len(rows) /\ Training /\ loop.round \in Nat
        /\ accepted \in SUBSET DOMAIN rows
    BY <1>1, <1>2, EndingIs DEF Held, RowsOf
  <2>2. RanksTrials(o, accepted, rows)
    BY <2>1, RankedRows
  <2>3. n \in Nat /\ o \in [1..n -> accepted]
    BY <2>2 DEF RanksTrials
  <2>4. starts = Prefix(o, TopKPolish)
    OBVIOUS
  <2> HIDE DEF o, n, starts
  <2>5. o \in Seq(accepted)
    BY <2>3
  <2>6. TopKPolish \in Nat /\ MaxPolishIters \in Nat /\ 0 + 1 <= MaxPolishIters /\ InitialStep \in Nat
    BY SizesAssumption
  <2>7. starts \in Seq(accepted) /\ Len(starts) <= TopKPolish /\ Len(starts) \in Nat
        /\ DOMAIN starts = 1..Len(starts)
    <3>1. starts \in Seq(accepted)
          /\ Len(starts) = IF TopKPolish <= Len(o) THEN TopKPolish ELSE Len(o)
      BY <2>4, <2>5, <2>6, PrefixIs
    <3> QED
      BY <2>5, <2>6, <3>1
  <2>8. \A k \in DOMAIN starts : starts[k] \in Held(loop.fold) /\ trail[k] \in Trajectories
                                 /\ trail[k].row = rows[starts[k]]
    <3> TAKE k \in DOMAIN starts
    <3>1. starts[k] \in Held(loop.fold)
      BY <1>2, <2>7
    <3>2. rows[starts[k]] \in Trials /\ rows[starts[k]].acc
      BY <2>1, <3>1 DEF Held, RowsOf
    <3> PICK r \in Trials : r = rows[starts[k]]
      BY <3>2
    <3>3. r.params \in Params
      BY DEF Trials
    <3>4. trail[k] = [at |-> r.params, step |-> InitialStep, row |-> r, active |-> TRUE]
      BY DEF Trajectory
    <3> PICK e : e = trail[k]
      OBVIOUS
    <3> HIDE DEF trail
    <3>5. /\ e = [at |-> r.params, step |-> InitialStep, row |-> r, active |-> TRUE]
          /\ r.params \in Params /\ InitialStep \in Nat /\ TRUE \in BOOLEAN /\ r.acc
      BY <2>6, <3>2, <3>3, <3>4
    <3>6. e \in Trajectories /\ e.row = r
      BY <3>5 DEF Trajectories
    <3> QED
      BY <3>1, <3>6
  <2>9. trail \in Seq(Trajectories) /\ Len(trail) = Len(starts) /\ DOMAIN trail = DOMAIN starts
    <3>1. DOMAIN trail = DOMAIN starts /\ trail = [k \in 1..Len(starts) |-> trail[k]]
      BY <2>7
    <3>2. \A k \in 1..Len(starts) : trail[k] \in Trajectories
      BY <2>7, <2>8
    <3> HIDE DEF trail
    <3> QED
      BY <2>7, <3>1, <3>2, Sequence
  <2> HIDE DEF trail
  <2>10. \A k \in Held(loop.fold) : rows[k].round = 0
    <3> TAKE k \in Held(loop.fold)
    <3>1. rows[k].round <= loop.round
      BY <1>2, <2>1 DEF Leading, Held, SearchInv
    <3>2. rows[k] \in Trials
      BY <2>1 DEF Held, RowsOf
    <3>3. rows[k].round \in Nat
      BY <3>2 DEF Trials
    <3> QED
      BY <1>1, <3>1, <3>3
  <2>11. loop.top # << >>
    BY <1>2, <1>4, <2>1, <2>10 DEF Leading, SearchInv
  <2>12. GoesOn(trail)
    <3>1. \A t \in DOMAIN trail : \E i \in Held(loop.fold) : trail[t].row = rows[i]
      BY <2>8, <2>9
    <3>2. \A k \in Held(loop.fold) : ~(rows[k].round > 0)
      BY <2>10
    <3> QED
      BY <1>1, <2>6, <2>7, <2>9, <2>11, <3>1, <3>2 DEF GoesOn
  <2>13. NextRound(trail)
    BY <1>1, <1>4 DEF trail
  <2> QED
    BY <1>1, <2>12, <2>13, NextRoundKeeps
<1> QED
  BY <1>3, <1>4

\* A trajectory after its better probe.
MovedTo(t, r) ==
    IF r.acc /\ Score(r) > Score(t.row) THEN [t EXCEPT !.at = r.params, !.row = r]
    ELSE [t EXCEPT !.step = @ \div 2, !.active = (@ /\ t.step \div 2 >= 1)]

\* A move never lowers the score of a trajectory.
LEMMA MovedIs ==
    ASSUME NEW t \in Trajectories, NEW r \in Trials
    PROVE  /\ MovedTo(t, r) \in Trajectories
           /\ MovedTo(t, r).row = t.row \/ (r.acc /\ MovedTo(t, r).row = r)
           /\ Score(t.row) <= Score(MovedTo(t, r).row)
           /\ r.acc => Score(r) <= Score(MovedTo(t, r).row)
<1>1. /\ t = [at |-> t.at, step |-> t.step, row |-> t.row, active |-> t.active]
      /\ t.at \in Params /\ t.step \in Nat /\ t.row \in Trials /\ t.active \in BOOLEAN /\ t.row.acc
  BY DEF Trajectories
<1>2. Score(t.row) \in Int /\ Score(r) \in Int
  BY <1>1, ScoreIs
<1>3. CASE r.acc /\ Score(r) > Score(t.row)
  <2>1. MovedTo(t, r) = [t EXCEPT !.at = r.params, !.row = r]
    BY <1>3 DEF MovedTo
  <2>2. MovedTo(t, r) = [at |-> r.params, step |-> t.step, row |-> r, active |-> t.active]
    BY <1>1, <2>1
  <2>3. r.params \in Params
    BY DEF Trials
  <2>4. MovedTo(t, r) \in Trajectories /\ MovedTo(t, r).row = r
    BY <1>1, <1>3, <2>2, <2>3 DEF Trajectories
  <2> QED
    BY <1>2, <1>3, <2>4
<1>4. CASE ~(r.acc /\ Score(r) > Score(t.row))
  <2> DEFINE half == t.step \div 2
             goes == t.active /\ half >= 1
  <2>1. MovedTo(t, r) = [t EXCEPT !.step = half, !.active = goes]
    BY <1>4 DEF MovedTo
  <2>2. half \in Nat /\ goes \in BOOLEAN
    BY <1>1
  <2> HIDE DEF half, goes
  <2>3. MovedTo(t, r) = [at |-> t.at, step |-> half, row |-> t.row, active |-> goes]
    BY <1>1, <2>1
  <2>4. MovedTo(t, r) \in Trajectories /\ MovedTo(t, r).row = t.row
    BY <1>1, <2>2, <2>3 DEF Trajectories
  <2>5. r.acc => Score(r) <= Score(t.row)
    BY <1>2, <1>4
  <2>6. Score(t.row) <= Score(t.row)
    BY <1>2
  <2> QED
    BY <2>4, <2>5, <2>6
<1> QED
  BY <1>3, <1>4

\* The probes of the k-th active trajectory, and the better one.
Probe(k, i) == Recent(2 * Len(Active), 2 * k - 2 + i)
Better(k) == IF Score(Probe(k, 2)) > Score(Probe(k, 1)) THEN Probe(k, 2) ELSE Probe(k, 1)

\* The j-th of the probes is one of the two of some trajectory.
LEMMA Paired ==
    ASSUME NEW n \in Nat, NEW j \in 1..(2 * n)
    PROVE  \E q \in 1..n : j = 2 * q - 2 + 1 \/ j = 2 * q - 2 + 2
<1> DEFINE q == (j + 1) \div 2
<1>1. q \in 1..n /\ (j = 2 * q - 2 + 1 \/ j = 2 * q - 2 + 2)
  OBVIOUS
<1> QED
  BY <1>1

\* What is known at the end of a batch of probes: they are its trials.
LEMMA ProbesTried ==
    ASSUME IInv, SearchInv, BatchDone, loop.fold > 0, Polishing, loop.round > 0
    PROVE  LET n == Len(Active)
           IN  /\ n \in Nat
               /\ \A q \in 1..n, i \in 1..2 :
                     /\ Probe(q, i) \in Trials
                     /\ Probe(q, i).acc => \E k \in Held(loop.fold) : Probe(q, i) = rows[k]
               /\ \A k \in RowsOf(loop.fold) : rows[k].round = loop.round =>
                     \E q \in 1..n, i \in 1..2 : rows[k] = Probe(q, i)
<1> DEFINE n == Len(Active)
<1>1. /\ Training /\ loop.round \in Nat /\ pc = "emit" /\ Len(loop.todo) = 0
      /\ rows \in Seq(Trials) /\ Len(rows) \in Nat /\ DOMAIN rows = 1..Len(rows)
  BY EndingIs
<1>2. n \in Nat
  <2>1. loop.trail \in Seq(Trajectories)
    BY <1>1 DEF SearchInv, Typed, Trailing
  <2> QED
    BY <2>1, ActiveIs
<1>3. /\ Recorded \in 0..Len(rows)
      /\ \A k \in DOMAIN rows :
            k > Len(rows) - Recorded <=> (k \in RowsOf(loop.fold) /\ rows[k].round = loop.round)
  BY <1>1 DEF SearchInv, Climbing
<1>4. Recorded = 2 * n
  BY <1>1, <1>2 DEF Recorded
<1> PICK l \in Nat : l = Len(rows)
  BY <1>1
<1> HIDE DEF n
<1>5. ASSUME NEW q \in 1..n, NEW i \in 1..2
      PROVE  /\ Probe(q, i) \in Trials
             /\ Probe(q, i).acc => \E k \in Held(loop.fold) : Probe(q, i) = rows[k]
  <2> DEFINE k == l - 2 * n + (2 * q - 2 + i)
  <2>1. k \in 1..l /\ k > l - 2 * n
    BY <1>2, <1>3, <1>4
  <2>2. Probe(q, i) = rows[k]
    BY DEF Probe, Recent, n
  <2> HIDE DEF k
  <2>3. k \in RowsOf(loop.fold) /\ rows[k] \in Trials
    BY <1>1, <1>3, <1>4, <2>1
  <2> QED
    BY <2>2, <2>3 DEF Held
<1>6. ASSUME NEW k \in RowsOf(loop.fold), rows[k].round = loop.round
      PROVE  \E q \in 1..n, i \in 1..2 : rows[k] = Probe(q, i)
  <2>1. k \in 1..l /\ k > l - 2 * n
    BY <1>1, <1>3, <1>4, <1>6 DEF RowsOf
  <2> DEFINE j == k - (l - 2 * n)
  <2>2. j \in 1..(2 * n) /\ l - 2 * n + j = k
    BY <1>2, <2>1
  <2> HIDE DEF j
  <2>3. PICK q \in 1..n : j = 2 * q - 2 + 1 \/ j = 2 * q - 2 + 2
    BY <1>2, <2>2, Paired
  <2>4. PICK i \in 1..2 : j = 2 * q - 2 + i
    BY <2>3
  <2>5. Probe(q, i) = rows[k]
    BY <2>2, <2>4 DEF Probe, Recent, n
  <2> QED
    BY <2>5
<1> QED
  BY <1>2, <1>5, <1>6 DEF n

\* The better probe is as good as both.
LEMMA BetterIs ==
    ASSUME NEW k, Probe(k, 1) \in Trials, Probe(k, 2) \in Trials
    PROVE  /\ Better(k) \in {Probe(k, 1), Probe(k, 2)}
           /\ \A i \in 1..2 : Score(Probe(k, i)) <= Score(Better(k))
<1>1. Score(Probe(k, 1)) \in Int /\ Score(Probe(k, 2)) \in Int
  BY ScoreIs
<1>2. CASE Score(Probe(k, 2)) > Score(Probe(k, 1))
  <2>1. Better(k) = Probe(k, 2)
    BY <1>2 DEF Better
  <2>2. \A i \in 1..2 : i = 1 \/ i = 2
    OBVIOUS
  <2> QED
    BY <1>1, <1>2, <2>1, <2>2
<1>3. CASE ~(Score(Probe(k, 2)) > Score(Probe(k, 1)))
  <2>1. Better(k) = Probe(k, 1)
    BY <1>3 DEF Better
  <2>2. \A i \in 1..2 : i = 1 \/ i = 2
    OBVIOUS
  <2> QED
    BY <1>1, <1>3, <2>1, <2>2
<1> QED
  BY <1>2, <1>3

\* A step of the polish moves the active trajectories by their better probes.
LEMMA PolishedBy ==
    ASSUME loop.trail \in Seq(Trajectories)
    PROVE  /\ DOMAIN Polished = DOMAIN loop.trail
           /\ Polished = [t \in DOMAIN loop.trail |-> Polished[t]]
           /\ \A k \in 1..Len(Active) : Polished[Active[k]] = MovedTo(loop.trail[Active[k]], Better(k))
           /\ \A t \in DOMAIN loop.trail :
                 Polished[t] = loop.trail[t] \/ \E k \in 1..Len(Active) : Active[k] = t
<1> DEFINE P(t) == IF loop.trail[t].active
                   THEN MovedTo(loop.trail[t], Better(CHOOSE k \in DOMAIN Active : Active[k] = t))
                   ELSE loop.trail[t]
<1>1. Polished = [t \in DOMAIN loop.trail |-> P(t)]
  BY DEF Polished, MovedTo, Better, Probe
<1>2. /\ DOMAIN Active = 1..Len(Active)
      /\ \A k \in 1..Len(Active) : Active[k] \in DOMAIN loop.trail /\ loop.trail[Active[k]].active
      /\ \A k, l \in 1..Len(Active) : k # l => Active[k] # Active[l]
      /\ \A i \in DOMAIN loop.trail : loop.trail[i].active => \E k \in 1..Len(Active) : Active[k] = i
  BY ActiveIs
<1>3. ASSUME NEW k \in 1..Len(Active)
      PROVE  Polished[Active[k]] = MovedTo(loop.trail[Active[k]], Better(k))
  <2> DEFINE q == CHOOSE q \in DOMAIN Active : Active[q] = Active[k]
  <2>1. q \in DOMAIN Active /\ Active[q] = Active[k]
    BY <1>2
  <2> HIDE DEF q
  <2>2. q = k
    BY <1>2, <2>1
  <2>3. P(Active[k]) = MovedTo(loop.trail[Active[k]], Better(q))
    BY <1>2 DEF q
  <2> HIDE DEF P
  <2> QED
    BY <1>1, <1>2, <2>2, <2>3
<1>4. ASSUME NEW t \in DOMAIN loop.trail
      PROVE  Polished[t] = loop.trail[t] \/ \E k \in 1..Len(Active) : Active[k] = t
  <2>1. Polished[t] = P(t)
    BY <1>1
  <2>2. CASE loop.trail[t].active
    BY <1>2, <2>2
  <2>3. CASE ~loop.trail[t].active
    BY <2>1, <2>3
  <2> QED
    BY <2>2, <2>3
<1> HIDE DEF P
<1> QED
  BY <1>1, <1>3, <1>4

\* The trajectories after a step of the polish lead the trials of all rounds but
\* the first.
LEMMA PolishedIs ==
    ASSUME IInv, SearchInv, BatchDone, loop.fold > 0, Polishing, loop.round > 0
    PROVE  /\ Polished \in Seq(Trajectories) /\ Len(Polished) = Len(loop.trail)
           /\ \A t \in DOMAIN Polished : \E i \in Held(loop.fold) : Polished[t].row = rows[i]
           /\ \A k \in Held(loop.fold) : rows[k].round > 0 =>
                 \E t \in DOMAIN Polished : Score(rows[k]) <= Score(Polished[t].row)
<1> DEFINE n == Len(Active)
<1>1. /\ Training /\ loop.round \in Nat /\ ~Halving
      /\ rows \in Seq(Trials) /\ Len(rows) \in Nat /\ DOMAIN rows = 1..Len(rows)
  BY EndingIs DEF Polishing, Halving
<1>2. /\ n \in Nat
      /\ \A q \in 1..n, i \in 1..2 :
            /\ Probe(q, i) \in Trials
            /\ Probe(q, i).acc => \E k \in Held(loop.fold) : Probe(q, i) = rows[k]
      /\ \A k \in RowsOf(loop.fold) : rows[k].round = loop.round =>
            \E q \in 1..n, i \in 1..2 : rows[k] = Probe(q, i)
  BY ProbesTried
<1>3. /\ loop.trail \in Seq(Trajectories)
      /\ DOMAIN loop.trail = 1..Len(loop.trail) /\ Len(loop.trail) \in Nat
      /\ \A t \in DOMAIN loop.trail : loop.trail[t] \in Trajectories
  <2>1. loop.trail \in Seq(Trajectories)
    BY <1>1 DEF SearchInv, Typed, Trailing
  <2> QED
    BY <2>1, Places
<1>4. \A k \in 1..n : Active[k] \in DOMAIN loop.trail
  BY <1>3, ActiveIs
<1>5. /\ DOMAIN Polished = DOMAIN loop.trail
      /\ Polished = [t \in DOMAIN loop.trail |-> Polished[t]]
      /\ \A k \in 1..n : Polished[Active[k]] = MovedTo(loop.trail[Active[k]], Better(k))
      /\ \A t \in DOMAIN loop.trail :
            Polished[t] = loop.trail[t] \/ \E k \in 1..n : Active[k] = t
  BY <1>3, PolishedBy
<1>6. /\ \A t \in DOMAIN loop.trail : \E i \in Held(loop.fold) : loop.trail[t].row = rows[i]
      /\ \A k \in Held(loop.fold) : rows[k].round > 0 /\ rows[k].round < loop.round =>
            \E t \in DOMAIN loop.trail : Score(rows[k]) <= Score(loop.trail[t].row)
  BY <1>1 DEF SearchInv, Climbing
<1> HIDE DEF n
<1>7. ASSUME NEW k \in 1..n
      PROVE  /\ Better(k) \in Trials
             /\ Better(k).acc => \E i \in Held(loop.fold) : Better(k) = rows[i]
             /\ \A i \in 1..2 : Score(Probe(k, i)) <= Score(Better(k))
  <2>1. \A i \in 1..2 : /\ Probe(k, i) \in Trials
                        /\ Probe(k, i).acc => \E j \in Held(loop.fold) : Probe(k, i) = rows[j]
    BY <1>2
  <2>2. 1 \in 1..2 /\ 2 \in 1..2
    OBVIOUS
  <2>3. /\ Better(k) \in {Probe(k, 1), Probe(k, 2)}
        /\ \A i \in 1..2 : Score(Probe(k, i)) <= Score(Better(k))
    BY <2>1, <2>2, BetterIs
  <2> QED
    BY <2>1, <2>2, <2>3
<1>8. ASSUME NEW t \in DOMAIN loop.trail
      PROVE  /\ Polished[t] \in Trajectories
             /\ \E i \in Held(loop.fold) : Polished[t].row = rows[i]
             /\ Score(loop.trail[t].row) <= Score(Polished[t].row)
  <2>1. CASE Polished[t] = loop.trail[t]
    <3>1. loop.trail[t].row \in Trials
      BY <1>3 DEF Trajectories
    <3>2. Score(loop.trail[t].row) \in Int
      BY <3>1, ScoreIs
    <3>3. Score(loop.trail[t].row) <= Score(loop.trail[t].row)
      BY <3>2
    <3> QED
      BY <1>3, <1>6, <2>1, <3>3
  <2>2. CASE \E k \in 1..n : Active[k] = t
    <3>1. PICK k \in 1..n : Active[k] = t
      BY <2>2
    <3>2. Polished[t] = MovedTo(loop.trail[t], Better(k)) /\ loop.trail[t] \in Trajectories
      BY <1>3, <1>5, <3>1
    <3>3. Better(k) \in Trials /\ (Better(k).acc => \E i \in Held(loop.fold) : Better(k) = rows[i])
      BY <1>7
    <3> PICK s \in Trajectories : s = loop.trail[t]
      BY <3>2
    <3> PICK r \in Trials : r = Better(k)
      BY <3>3
    <3>4. /\ MovedTo(s, r) \in Trajectories
          /\ MovedTo(s, r).row = s.row \/ (r.acc /\ MovedTo(s, r).row = r)
          /\ Score(s.row) <= Score(MovedTo(s, r).row)
      BY MovedIs
    <3>5. \E i \in Held(loop.fold) : s.row = rows[i]
      BY <1>6
    <3> QED
      BY <3>2, <3>3, <3>4, <3>5
  <2> QED
    BY <1>5, <2>1, <2>2
<1>9. ASSUME NEW k \in Held(loop.fold), rows[k].round > 0
      PROVE  \E t \in DOMAIN loop.trail : Score(rows[k]) <= Score(Polished[t].row)
  <2>1. k \in RowsOf(loop.fold) /\ rows[k] \in Trials /\ rows[k].acc
    BY <1>1 DEF Held, RowsOf
  <2>2. Score(rows[k]) \in Int /\ Score(rows[k]) > NegInf
    BY <2>1, ScoreIs
  <2>3. rows[k].round <= loop.round /\ rows[k].round \in Nat
    <3>1. rows[k].round <= loop.round
      BY <1>1, <2>1 DEF SearchInv, Leading
    <3> QED
      BY <2>1, <3>1 DEF Trials
  <2>4. CASE rows[k].round < loop.round
    <3>1. PICK t \in DOMAIN loop.trail : Score(rows[k]) <= Score(loop.trail[t].row)
      BY <1>6, <1>9, <2>4
    <3>2. Score(loop.trail[t].row) <= Score(Polished[t].row) /\ Polished[t] \in Trajectories
      BY <1>8
    <3>3. loop.trail[t].row \in Trials /\ Polished[t].row \in Trials
      BY <1>3, <3>2 DEF Trajectories
    <3>4. Score(loop.trail[t].row) \in Int /\ Score(Polished[t].row) \in Int
      BY <3>3, ScoreIs
    <3> QED
      BY <2>2, <3>1, <3>2, <3>4
  <2>5. CASE rows[k].round = loop.round
    <3>1. PICK q \in 1..n, i \in 1..2 : rows[k] = Probe(q, i)
      BY <1>2, <2>1, <2>5
    <3>2. Better(q) \in Trials /\ Score(rows[k]) <= Score(Better(q))
      BY <1>7, <3>1
    <3>3. Score(Better(q)) \in Int /\ (~Better(q).acc => Score(Better(q)) = NegInf)
      BY <3>2, ScoreIs
    <3>4. Better(q).acc
      BY <2>2, <3>2, <3>3, ClampAssumption
    <3> PICK t \in DOMAIN loop.trail : t = Active[q]
      BY <1>4
    <3>5. Polished[t] = MovedTo(loop.trail[t], Better(q)) /\ loop.trail[t] \in Trajectories
      BY <1>3, <1>5
    <3>6. Score(Better(q)) <= Score(Polished[t].row)
      BY <3>2, <3>4, <3>5, MovedIs
    <3>7. Polished[t].row \in Trials
      <4>1. Polished[t] \in Trajectories
        BY <1>8
      <4> QED
        BY <4>1 DEF Trajectories
    <3>8. Score(Polished[t].row) \in Int
      BY <3>7, ScoreIs
    <3>9. Score(rows[k]) <= Score(Polished[t].row)
      BY <2>2, <3>2, <3>3, <3>6, <3>8
    <3> QED
      BY <3>9
  <2> QED
    BY <1>1, <2>3, <2>4, <2>5
<1>10. Polished \in Seq(Trajectories) /\ Len(Polished) = Len(loop.trail)
  <2>1. DOMAIN Polished = 1..Len(loop.trail) /\ Polished = [t \in 1..Len(loop.trail) |-> Polished[t]]
        /\ \A t \in 1..Len(loop.trail) : Polished[t] \in Trajectories
    BY <1>3, <1>5, <1>8
  <2> QED
    BY <1>3, <2>1, Sequence
<1> QED
  BY <1>5, <1>8, <1>9, <1>10

\* A sequence put behind a single element.
LEMMA FirstOf ==
    ASSUME NEW X, NEW s \in Seq(X), NEW t \in Seq(X), Len(s) = 1
    PROVE  /\ s \o t \in Seq(X) /\ Len(t) \in Nat /\ DOMAIN (s \o t) = 1..(1 + Len(t))
           /\ (s \o t)[1] = s[1] /\ \A i \in 1..Len(t) : (s \o t)[1 + i] = t[i]
<1>1. s \o t \in Seq(X) /\ Len(t) \in Nat /\ Len(s \o t) = 1 + Len(t)
  <2>1. s \o t \in Seq(X) /\ Len(s \o t) = Len(s) + Len(t)
    BY ConcatProperties
  <2>2. Len(t) \in Nat
    BY LenProperties
  <2> QED
    BY <2>1, <2>2
<1>2. DOMAIN (s \o t) = 1..(1 + Len(t))
  <2> PICK u : u = s \o t
    OBVIOUS
  <2>1. u \in Seq(X) /\ Len(u) = 1 + Len(t)
    BY <1>1
  <2>2. DOMAIN u = 1..Len(u)
    BY <2>1, LenProperties
  <2> QED
    BY <2>1, <2>2
<1>3. \A k \in 1..(Len(s) + Len(t)) :
          (s \o t)[k] = IF k <= Len(s) THEN s[k] ELSE t[k - Len(s)]
  BY ConcatProperties
<1>4. (s \o t)[1] = s[1]
  <2>1. 1 \in 1..(Len(s) + Len(t)) /\ 1 <= Len(s)
    BY <1>1
  <2> QED
    BY <1>3, <2>1
<1>5. ASSUME NEW i \in 1..Len(t)
      PROVE  (s \o t)[1 + i] = t[i]
  <2> PICK k : k = 1 + i
    OBVIOUS
  <2>1. k \in 1..(Len(s) + Len(t)) /\ ~(k <= Len(s)) /\ k - Len(s) = i
    BY <1>1
  <2>2. (s \o t)[k] = t[k - Len(s)]
    BY ONLY <1>3, <2>1
  <2> QED
    BY <2>1, <2>2
<1> QED
  BY <1>1, <1>2, <1>4, <1>5

\* The fold's winner is the best of the seeds and the trajectories, and so of all.
LEMMA PolishedBestIs ==
    ASSUME IInv, SearchInv, BatchDone, loop.fold > 0, Polishing, loop.round > 0
    PROVE  \E i \in RowsOf(loop.fold) :
              /\ Winner(<< PolishedBest >>) = [fold |-> loop.fold, params |-> rows[i].params]
              /\ \A k \in RowsOf(loop.fold) : Score(rows[k]) <= Score(rows[i])
<1> DEFINE ends == [i \in DOMAIN Polished |-> Polished[i].row]
           last == loop.top \o ends
           o == Ranked(DOMAIN last, LAMBDA i, k : Score(last[i]) > Score(last[k]))
<1>1. /\ Training /\ loop.round \in Nat /\ ~Halving
      /\ rows \in Seq(Trials) /\ Len(rows) \in Nat /\ DOMAIN rows = 1..Len(rows)
  BY EndingIs DEF Polishing, Halving
<1>2. /\ Polished \in Seq(Trajectories)
      /\ \A t \in DOMAIN Polished : \E i \in Held(loop.fold) : Polished[t].row = rows[i]
      /\ \A k \in Held(loop.fold) : rows[k].round > 0 =>
            \E t \in DOMAIN Polished : Score(rows[k]) <= Score(Polished[t].row)
  BY PolishedIs
<1>3. /\ loop.top # << >>
      /\ loop.top = << >> \/ \E i \in Held(loop.fold) : loop.top = << rows[i] >>
      /\ \A k \in Held(loop.fold) : rows[k].round = 0 => Score(rows[k]) <= Score(loop.top[1])
  BY <1>1 DEF SearchInv, Climbing, Leading
<1>4. PICK first \in Held(loop.fold) : loop.top = << rows[first] >>
  BY <1>3
<1>5. \A i \in Held(loop.fold) : i \in RowsOf(loop.fold) /\ rows[i] \in Trials /\ rows[i].acc
  BY <1>1 DEF Held, RowsOf
<1>6. PolishedBest = last[o[1]]
  BY DEF PolishedBest
<1>7. ends \in Seq(Trials) /\ Len(ends) = Len(Polished) /\ Len(Polished) \in Nat
      /\ DOMAIN Polished = 1..Len(Polished)
      /\ \A i \in 1..Len(Polished) : ends[i] = Polished[i].row
  <2>1. DOMAIN ends = 1..Len(Polished) /\ ends = [i \in 1..Len(Polished) |-> ends[i]]
        /\ Len(Polished) \in Nat /\ DOMAIN Polished = 1..Len(Polished)
        /\ \A i \in 1..Len(Polished) : ends[i] = Polished[i].row
    BY <1>2
  <2>2. \A i \in 1..Len(Polished) : ends[i] \in Trials
    BY <1>2, <1>5, <2>1
  <2> HIDE DEF ends
  <2>3. ends \in Seq(Trials) /\ Len(ends) = Len(Polished)
    BY <2>1, <2>2, Sequence
  <2> QED
    BY <2>1, <2>3
<1> PICK top : top = loop.top
  OBVIOUS
<1>8. top \in Seq(Trials) /\ Len(top) = 1 /\ top[1] = rows[first]
  BY <1>4, <1>5
<1> HIDE DEF ends
<1> PICK m \in Nat : m = Len(Polished)
  BY <1>7
<1>9. /\ last \in Seq(Trials) /\ DOMAIN last = 1..(1 + m)
      /\ last[1] = rows[first] /\ \A i \in 1..m : last[1 + i] = ends[i]
  <2>1. last = top \o ends
    OBVIOUS
  <2> HIDE DEF last
  <2>2. /\ top \o ends \in Seq(Trials) /\ DOMAIN (top \o ends) = 1..(1 + Len(ends))
        /\ (top \o ends)[1] = top[1] /\ \A i \in 1..Len(ends) : (top \o ends)[1 + i] = ends[i]
    <3>1. ASSUME NEW a \in Seq(Trials), NEW b \in Seq(Trials), Len(a) = 1
          PROVE  /\ a \o b \in Seq(Trials) /\ DOMAIN (a \o b) = 1..(1 + Len(b))
                 /\ (a \o b)[1] = a[1] /\ \A i \in 1..Len(b) : (a \o b)[1 + i] = b[i]
      BY ONLY <3>1, FirstOf
    <3>2. top \in Seq(Trials) /\ ends \in Seq(Trials) /\ Len(top) = 1
      BY <1>7, <1>8
    <3> QED
      BY <3>1, <3>2, Zenon
  <2>3. Len(ends) = m
    BY <1>7
  <2> QED
    BY <1>8, <2>1, <2>2, <2>3
<1> HIDE DEF last
<1>10. RanksTrials(o, DOMAIN last, last)
  BY <1>9, RankedTrials
<1> HIDE DEF o
<1>11. /\ o[1] \in DOMAIN last
       /\ \A i \in DOMAIN last : Score(last[i]) <= Score(last[o[1]])
  <2>1. DOMAIN last # {}
    BY <1>9
  <2> QED
    BY <1>9, <1>10, <2>1, BestTrialIs
<1>12. \A j \in DOMAIN last : \E i \in Held(loop.fold) : last[j] = rows[i]
  <2> TAKE j \in DOMAIN last
  <2>1. CASE j = 1
    BY <1>9, <2>1
  <2>2. CASE j # 1
    <3> DEFINE i == j - 1
    <3>1. i \in 1..m /\ j = 1 + i
      BY <1>9, <2>2
    <3> HIDE DEF i
    <3>2. last[j] = Polished[i].row
      BY <1>7, <1>9, <3>1
    <3> QED
      BY <1>2, <1>7, <3>1, <3>2
  <2> QED
    BY <2>1, <2>2
<1>13. PICK i \in Held(loop.fold) : PolishedBest = rows[i]
  BY <1>6, <1>11, <1>12
<1>14. \A j \in DOMAIN last : Score(last[j]) <= Score(rows[i])
  BY <1>6, <1>11, <1>13
<1>15. Score(rows[i]) \in Int /\ Score(rows[i]) >= NegInf
  BY <1>5, ScoreIs
<1>16. ASSUME NEW k \in RowsOf(loop.fold) PROVE Score(rows[k]) <= Score(rows[i])
  <2>1. rows[k] \in Trials
    BY <1>1 DEF RowsOf
  <2>2. Score(rows[k]) \in Int /\ (~rows[k].acc => Score(rows[k]) = NegInf) /\ rows[k].round \in Nat
    BY <2>1, ScoreIs DEF Trials
  <2>3. CASE ~rows[k].acc
    BY <1>15, <2>2, <2>3, ClampAssumption
  <2>4. CASE rows[k].acc /\ rows[k].round = 0
    <3>1. Score(rows[k]) <= Score(loop.top[1])
      BY <1>3, <2>4 DEF Held
    <3>2. loop.top[1] = last[1] /\ 1 \in DOMAIN last
      BY <1>8, <1>9
    <3>3. Score(last[1]) <= Score(rows[i]) /\ Score(last[1]) \in Int
      <4>1. last[1] \in Trials
        BY <1>5, <1>9
      <4> QED
        BY <1>14, <3>2, <4>1, ScoreIs
    <3> QED
      BY <1>15, <2>2, <3>1, <3>2, <3>3
  <2>5. CASE rows[k].acc /\ rows[k].round > 0
    <3>1. PICK t \in DOMAIN Polished : Score(rows[k]) <= Score(Polished[t].row)
      BY <1>2, <2>5 DEF Held
    <3>2. t \in 1..m /\ 1 + t \in DOMAIN last /\ last[1 + t] = Polished[t].row
      BY <1>7, <1>9
    <3> PICK j \in DOMAIN last : last[j] = Polished[t].row
      BY <3>2
    <3>3. Score(last[j]) <= Score(rows[i]) /\ Score(last[j]) \in Int
      <4>1. last[j] \in Trials
        BY <1>5, <1>12
      <4> QED
        BY <1>14, <4>1, ScoreIs
    <3> QED
      BY <1>15, <2>2, <3>1, <3>3
  <2> QED
    BY <2>2, <2>3, <2>4, <2>5
<1>17. Winner(<< PolishedBest >>) = [fold |-> loop.fold, params |-> rows[i].params]
  BY <1>13 DEF Winner
<1> QED
  BY <1>5, <1>16, <1>17

\* The end of a round of the polish.
LEMMA EndPolishKeeps == ASSUME IInv, SearchInv, EndPolish PROVE SearchInv'
<1>1. /\ BatchDone /\ loop.fold > 0 /\ method = "lhs_polish" /\ loop.round > 0
      /\ UNCHANGED <<method, rows>>
      /\ \/ loop.round < MaxPolishIters /\ NextRound(Polished)
         \/ Conclude(Winner(<< PolishedBest >>))
  BY DEF EndPolish
<1>2. ~Halving /\ Polishing /\ method # "recursive_grid"
  BY <1>1 DEF Halving, Polishing
<1>3. CASE loop.round < MaxPolishIters /\ NextRound(Polished)
  <2>1. /\ Polished \in Seq(Trajectories) /\ Len(Polished) = Len(loop.trail)
        /\ \A t \in DOMAIN Polished : \E i \in Held(loop.fold) : Polished[t].row = rows[i]
        /\ \A k \in Held(loop.fold) : rows[k].round > 0 =>
              \E t \in DOMAIN Polished : Score(rows[k]) <= Score(Polished[t].row)
    BY <1>1, <1>2, PolishedIs
  <2>2. Training /\ loop.round \in Nat
    BY <1>1, EndingIs
  <2>3. Len(loop.trail) <= TopKPolish /\ loop.top # << >>
    BY <1>1, <1>2, <2>2 DEF SearchInv, Counted, Climbing
  <2>4. loop.round + 1 <= MaxPolishIters
    BY <1>3, <2>2, SizesAssumption
  <2>5. GoesOn(Polished)
    BY <2>1, <2>3, <2>4 DEF GoesOn
  <2> QED
    BY <1>1, <1>2, <1>3, <2>5, NextRoundKeeps
<1>4. CASE Conclude(Winner(<< PolishedBest >>))
  <2>1. PICK i \in RowsOf(loop.fold) :
          /\ Winner(<< PolishedBest >>) = [fold |-> loop.fold, params |-> rows[i].params]
          /\ \A k \in RowsOf(loop.fold) : Score(rows[k]) <= Score(rows[i])
    BY <1>1, <1>2, PolishedBestIs
  <2> QED
    BY <1>1, <1>2, <1>4, <2>1, ConcludeKeeps
<1> QED
  BY <1>1, <1>3, <1>4

\* Means over counts are compared by cross-multiplication, and that is transitive.
LEMMA MeansOrder ==
    ASSUME NEW a \in Nat \ {0}, NEW b \in Nat \ {0}, NEW c \in Nat \ {0},
           NEW x \in Int, NEW y \in Int, NEW z \in Int, x * b <= y * a, y * c <= z * b
    PROVE  x * c <= z * a
<1>1. /\ x * b \in Int /\ y * a \in Int /\ y * c \in Int /\ z * b \in Int
      /\ x * c \in Int /\ z * a \in Int
  OBVIOUS
<1>2. c * (x * b) <= c * (y * a) /\ c * (x * b) \in Int /\ c * (y * a) \in Int
  BY <1>1, Times
<1>3. a * (y * c) <= a * (z * b) /\ a * (z * b) \in Int
  BY <1>1, Times
<1>4. c * (y * a) = a * (y * c) /\ c * (x * b) = b * (x * c) /\ a * (z * b) = b * (z * a)
  OBVIOUS
<1>5. b * (x * c) <= b * (z * a)
  BY <1>2, <1>3, <1>4
<1>6. ASSUME x * c > z * a PROVE FALSE
  <2>1. z * a + 1 <= x * c /\ z * a + 1 \in Int
    BY <1>1, <1>6
  <2>2. b * (z * a + 1) <= b * (x * c)
    BY <1>1, <2>1, Times
  <2>3. b * (z * a + 1) = b * (z * a) + b /\ b * (z * a) \in Int /\ b * (x * c) \in Int
    BY <1>1
  <2> QED
    BY <1>5, <2>2, <2>3
<1> QED
  BY <1>1, <1>6

\* The survivors of a rung by the mean of what their folds accepted, none the last.
LEMMA MeansAreOrdered ==
    ASSUME NEW S, NEW total, NEW count, \A i \in S : total[i] \in Int /\ count[i] \in Nat
    PROVE  OrdersWeakly({p \in S \X S :
                /\ count[p[1]] > 0
                /\ count[p[2]] = 0 \/ total[p[1]] * count[p[2]] > total[p[2]] * count[p[1]]}, S)
<1> DEFINE Above(i, k) == /\ count[i] > 0
                          /\ count[k] = 0 \/ total[i] * count[k] > total[k] * count[i]
           A == {p \in S \X S : Above(p[1], p[2])}
<1>1. \A i, k \in S : <<i, k>> \in A <=> Above(i, k)
  OBVIOUS
<1>2. \A i, k \in S : total[i] * count[k] \in Int
  OBVIOUS
<1>3. ASSUME NEW i \in S, NEW k \in S, Above(i, k) PROVE ~Above(k, i)
  BY <1>2, <1>3
<1>4. ASSUME NEW i \in S, NEW j \in S, NEW k \in S, ~Above(i, j), ~Above(j, k) PROVE ~Above(i, k)
  <2> SUFFICES ASSUME count[i] > 0 PROVE count[k] > 0 /\ total[i] * count[k] <= total[k] * count[i]
    BY <1>2
  <2>1. count[j] > 0 /\ total[i] * count[j] <= total[j] * count[i]
    BY <1>2, <1>4
  <2>2. count[k] > 0 /\ total[j] * count[k] <= total[k] * count[j]
    BY <1>2, <1>4, <2>1
  <2>3. /\ count[i] \in Nat \ {0} /\ count[j] \in Nat \ {0} /\ count[k] \in Nat \ {0}
        /\ total[i] \in Int /\ total[j] \in Int /\ total[k] \in Int
    BY <2>1, <2>2
  <2> QED
    BY <2>1, <2>2, <2>3, MeansOrder
<1> HIDE DEF Above
<1>5. \A i, k \in S : <<i, k>> \in A => <<k, i>> \notin A
  BY <1>1, <1>3
<1>6. \A i, j, k \in S : <<i, j>> \notin A /\ <<j, k>> \notin A => <<i, k>> \notin A
  BY <1>1, <1>4
<1>7. OrdersWeakly(A, S)
  <2> HIDE DEF A
  <2> QED
    BY <1>5, <1>6 DEF OrdersWeakly
<1> QED
  BY <1>7 DEF Above

\* The place of a candidate and a fold in their grid.
LEMMA GridPlace ==
    ASSUME NEW n \in Nat, NEW b \in Nat, NEW i \in 1..n, NEW f \in 1..b
    PROVE  (i - 1) * b + f \in 1..(n * b) /\ n * b \in Nat
<1>1. b * (i - 1) <= b * (n - 1) /\ b * (i - 1) \in Int /\ b * 0 <= b * (i - 1)
  BY Times
<1>2. b * (i - 1) = (i - 1) * b /\ b * (n - 1) = n * b - b /\ b * 0 = 0 /\ n * b \in Nat
  OBVIOUS
<1> QED
  BY <1>1, <1>2

\* Of the candidates of a rung, as many survive as are planned for the next one.
LEMMA SurvivingAre ==
    ASSUME IInv, SearchInv, BatchDone, loop.fold > 0, Halving
    PROVE  /\ Surviving \in Seq([params : Params])
           /\ Len(Surviving) = Survivors[loop.round + 1]
           /\ loop.round + 1 \in 1..RungCount
           /\ Len(rows) = PlannedBefore[loop.round + 1]
<1> DEFINE trail == loop.trail
           r == loop.round
           folds == Budget(r)
           D == DOMAIN trail
           trial(i, f) == Recent(Len(trail) * folds, (i - 1) * folds + f)
           accepted(i) == {f \in 1..folds : trial(i, f).acc}
           Total(i) == SumOver(accepted(i), [f \in accepted(i) |-> trial(i, f).m])
           Count(i) == Cardinality(accepted(i))
           Above(i, k) == Count(i) > 0 /\ (Count(k) = 0 \/ Total(i) * Count(k) > Total(k) * Count(i))
           total == [i \in D |-> Total(i)]
           count == [i \in D |-> Count(i)]
           A == {p \in D \X D :
                    /\ count[p[1]] > 0
                    /\ count[p[2]] = 0 \/ total[p[1]] * count[p[2]] > total[p[2]] * count[p[1]]}
           o == Ranked(D, Above)
           kept == Prefix(o, Survivors[r + 1])
<1>1. /\ Training /\ r \in Nat /\ rows \in Seq(Trials) /\ Len(rows) \in Nat
      /\ DOMAIN rows = 1..Len(rows) /\ Len(loop.todo) = 0 /\ Emitting = 1
  BY EndingIs DEF Emitting
<1>2. /\ r < RungCount /\ Len(trail) = Survivors[r]
      /\ Len(rows) + Len(loop.todo) = PlannedBefore[r + Emitting]
      /\ trail \in Seq([params : Params])
  BY <1>1 DEF SearchInv, Rungs, Typed, Trailing
<1>3. r \in 0..RungCount /\ r + 1 \in 1..RungCount /\ r + 1 \in 0..RungCount /\ (r + 1) - 1 = r
  BY <1>1, <1>2, RungCountIs
<1> PICK n : n = Len(trail)
  OBVIOUS
<1> PICK s : s = Survivors[r + 1]
  OBVIOUS
<1>4. n \in Nat /\ s \in Nat /\ s <= n
  BY <1>2, <1>3, SurvivorsAre
<1> PICK b \in 1..NFolds : b = folds
  BY <1>1, BudgetIs
<1>5. b \in Nat
  BY SizesAssumption
<1>6. Len(rows) = PlannedBefore[r + 1] /\ Len(rows) = PlannedBefore[r] + n * b /\ PlannedBefore[r] \in Nat
  <2>1. PlannedBefore[r + 1] = PlannedBefore[r] + Survivors[r] * Budget(r)
    BY <1>3, PlannedBeforeIs
  <2>2. PlannedBefore[r] \in Nat /\ PlannedBefore[r + 1] \in Nat
    BY <1>3, PlannedBeforeIs
  <2> QED
    BY <1>1, <1>2, <2>1, <2>2
<1>7. D = 1..n /\ D \in SUBSET Nat /\ IsFiniteSet(D) /\ Cardinality(D) = n
      /\ \A i \in 1..n : trail[i] \in [params : Params]
  BY <1>2, Places
<1> HIDE DEF trail, r, folds, D
<1>8. ASSUME NEW i \in D, NEW f \in 1..folds PROVE trial(i, f) \in Trials
  <2>1. (i - 1) * b + f \in 1..(n * b) /\ n * b \in Nat
    BY <1>4, <1>5, <1>7, GridPlace
  <2>2. Len(rows) - n * b + ((i - 1) * b + f) \in DOMAIN rows
    BY <1>1, <1>6, <2>1
  <2>3. trial(i, f) = rows[Len(rows) - n * b + ((i - 1) * b + f)]
    BY DEF Recent
  <2> QED
    BY <1>1, <2>2, <2>3
<1> HIDE DEF trial
<1>9. ASSUME NEW i \in D PROVE Total(i) \in Int /\ Count(i) \in Nat
  <2>1. accepted(i) \in SUBSET (1..b)
    OBVIOUS
  <2>2. IsFiniteSet(1..b)
    BY <1>5, Upto
  <2>3. IsFiniteSet(accepted(i)) /\ Cardinality(accepted(i)) \in Nat
    BY <2>1, <2>2, FS_Subset, FS_CardinalityType
  <2>4. \A f \in accepted(i) : trial(i, f).m \in Int
    BY <1>8, <1>9 DEF Trials
  <2> DEFINE F == accepted(i)
             g == [f \in F |-> trial(i, f).m]
  <2>5. \A f \in F : g[f] \in Int
    BY <2>4
  <2>6. SumOver(F, g) \in Int
    <3> HIDE DEF F, g
    <3>1. IsFiniteSet(F)
      BY <2>3 DEF F
    <3> QED
      BY <2>5, <3>1, SumType
  <2> QED
    BY <2>3, <2>6
<1> HIDE DEF accepted
<1>10. \A i \in D : total[i] = Total(i) /\ count[i] = Count(i) /\ total[i] \in Int /\ count[i] \in Nat
  BY <1>9
<1> HIDE DEF Total, Count
<1>11. OrdersWeakly(A, D)
  <2> HIDE DEF total, count
  <2> QED
    BY <1>10, MeansAreOrdered, SMTT(30)
<1>12. \A i, k \in D : <<i, k>> \in A <=> Above(i, k)
  BY <1>10
<1> HIDE DEF Above, A, total, count
<1>13. o = Ordered(D, Stably(D, A))
  <2>1. Stably(D, A) = {p \in D \X D : \/ Above(p[1], p[2])
                                       \/ (~Above(p[2], p[1]) /\ p[1] < p[2])}
    <3>1. \A p \in D \X D : p = <<p[1], p[2]>> /\ p[1] \in D /\ p[2] \in D
      OBVIOUS
    <3>2. \A p \in D \X D : (p \in A <=> Above(p[1], p[2])) /\ (<<p[2], p[1]>> \in A <=> Above(p[2], p[1]))
      BY <1>12, <3>1
    <3> QED
      BY <3>2 DEF Stably
  <2> QED
    BY <2>1 DEF Ranked
<1> HIDE DEF o
<1>14. o \in [1..n -> D]
  <2>1. Enumerates(o, D, A)
    BY <1>7, <1>11, <1>13, StablyIs
  <2> QED
    BY <1>7, <2>1 DEF Enumerates
<1>15. o \in Seq(D) /\ Len(o) = n
  BY <1>4, <1>14
<1>16. /\ kept \in Seq(D) /\ Len(kept) = s /\ DOMAIN kept = 1..s
       /\ \A k \in 1..s : kept[k] \in D
  <2>1. /\ Prefix(o, s) \in Seq(D) /\ Len(Prefix(o, s)) = IF s <= Len(o) THEN s ELSE Len(o)
    BY <1>4, <1>15, PrefixIs
  <2>2. kept \in Seq(D) /\ Len(kept) = s
    BY <1>4, <1>15, <2>1
  <2> HIDE DEF kept
  <2> QED
    BY <2>2, Places
<1>17. Surviving = [k \in DOMAIN kept |-> trail[kept[k]]]
  BY DEF Surviving, kept, o, Above, Count, Total, accepted, trial, D, folds, r, trail
<1> HIDE DEF kept
<1> PICK u : u = Surviving
  OBVIOUS
<1>18. u \in Seq([params : Params]) /\ Len(u) = s
  <2>1. DOMAIN u = 1..s /\ u = [k \in 1..s |-> u[k]] /\ \A k \in 1..s : u[k] = trail[kept[k]]
    BY <1>16, <1>17
  <2>2. \A k \in 1..s : u[k] \in [params : Params]
    BY <1>7, <1>16, <2>1
  <2> DEFINE X == [params : Params]
  <2>3. \A k \in 1..s : u[k] \in X
    BY <2>2
  <2> HIDE DEF X
  <2>4. u \in Seq(X) /\ Len(u) = s
    BY <1>4, <2>1, <2>3, Sequence, SMTT(30)
  <2> QED
    BY <2>4 DEF X
<1> QED
  BY <1>3, <1>6, <1>18 DEF r

\* The end of a rung.
LEMMA EndRungKeeps == ASSUME IInv, SearchInv, EndRung PROVE SearchInv'
<1> USE DEF SearchInv
<1>1. /\ BatchDone /\ loop.fold > 0 /\ Halving /\ UNCHANGED <<method, rows>>
      /\ method = "successive_halving"
      /\ \/ loop.round + 1 < RungCount /\ NextRound(Surviving)
         \/ /\ ~(loop.round + 1 < RungCount)
            /\ winners' = [k \in DOMAIN Surviving |-> [fold |-> k, params |-> Surviving[k].params]]
            /\ pc' = "cross" /\ loop' = Fresh(0)
  BY DEF EndRung, Halving
<1>2. /\ Surviving \in Seq([params : Params]) /\ Len(Surviving) = Survivors[loop.round + 1]
      /\ loop.round + 1 \in 1..RungCount /\ Len(rows) = PlannedBefore[loop.round + 1]
  BY <1>1, SurvivingAre
<1>3. /\ TypeOK /\ Training /\ pc = "emit" /\ loop.todo = << >> /\ Len(loop.todo) = 0
      /\ loop.round \in Nat /\ loop.fold \in 1..NFolds
      /\ rows \in Seq(Trials) /\ Len(rows) \in Nat /\ DOMAIN rows = 1..Len(rows)
      /\ Trained = 1..Len(rows) /\ Cardinality(Trained) = Len(rows)
  BY <1>1, EndingIs
<1> PICK u : u = Surviving
  OBVIOUS
<1> PICK n \in Nat : n = loop.round + 1
  BY <1>3
<1>4. Halving' /\ ~Polishing' /\ Exact' /\ Exact
  BY <1>1 DEF Halving, Polishing, Exact
<1>5. Won' /\ Leading' /\ Climbing'
  BY <1>4 DEF Won, Leading, Climbing
<1>6. CASE n < RungCount /\ NextRound(Surviving)
  <2>1. /\ loop'.fold = loop.fold /\ loop'.round = n /\ loop'.todo = << >>
        /\ loop'.trail = u /\ pc' = "ask" /\ winners' = winners
    BY <1>3, <1>6, NextRoundFields
  <2>2. Training' /\ ~Crossing' /\ Emitting' = 0 /\ Len(rows') + Len(loop'.todo) = Len(rows)
    BY <1>1, <1>3, <2>1 DEF Training, Crossing, Emitting
  <2>3. Typed'
    <3>1. Trailing'
      BY <1>2, <1>4, <2>1 DEF Trailing
    <3>2. loop'.fold > 0 /\ loop'.fold \in 0..NFolds /\ pc' # "cross"
      BY <1>1, <1>3, <2>1
    <3> QED
      BY <1>1, <1>3, <2>1, <3>1, <3>2 DEF Typed
  <2>4. Phases'
    BY <1>1, <1>3, <1>4, <2>1, <2>2 DEF Phases
  <2>5. Rungs'
    <3>1. n + 0 = n
      OBVIOUS
    <3> QED
      BY <1>2, <1>6, <2>1, <2>2, <3>1 DEF Rungs
  <2>6. Counted'
    <3>1. loop'.round + Emitting' = n
      BY <2>1, <2>2
    <3>2. Until(loop.fold, loop.round + Emitting)' = PlannedBefore[n]
      BY <1>1, <3>1 DEF Until
    <3>3. Len(rows) <= PlannedBefore[n] /\ Len(rows) = PlannedBefore[n]
      BY <1>2, <1>3
    <3>4. pc' \notin {"select", "close"} \cup Finishing
      BY <2>1 DEF Finishing
    <3> QED
      BY <1>1, <1>4, <2>2, <3>2, <3>3, <3>4 DEF Counted
  <2> QED
    BY <1>5, <2>3, <2>4, <2>5, <2>6
<1>7. CASE /\ ~(n < RungCount)
           /\ winners' = [k \in DOMAIN Surviving |-> [fold |-> k, params |-> Surviving[k].params]]
           /\ pc' = "cross" /\ loop' = Fresh(0)
  <2>1. loop'.fold = 0 /\ loop'.round = 0 /\ loop'.todo = << >> /\ loop'.trail = << >>
    BY <1>7, FreshFields
  <2>2. ~Training' /\ Crossing' /\ DOMAIN loop'.todo = {}
    BY <1>7, <2>1 DEF Training, Crossing
  <2>3. winners' \in Seq(Winners)
    <3>1. /\ Len(u) \in Nat /\ DOMAIN u = 1..Len(u)
          /\ \A k \in 1..Len(u) : u[k] \in [params : Params]
      BY <1>2, Places
    <3> PICK m \in Nat : m = Len(u)
      BY <3>1
    <3> PICK w : w = winners'
      OBVIOUS
    <3>2. /\ DOMAIN w = 1..m /\ w = [k \in 1..m |-> w[k]]
          /\ \A k \in 1..m : w[k] = [fold |-> k, params |-> u[k].params]
      BY <1>7, <3>1
    <3>3. ASSUME NEW k \in 1..m PROVE w[k] \in Winners
      <4>1. k \in Nat /\ u[k].params \in Params
        BY <3>1
      <4> PICK p \in Params : p = u[k].params
        BY <4>1
      <4>2. w[k] = [fold |-> k, params |-> p]
        BY <3>2
      <4> PICK x : x = w[k]
        OBVIOUS
      <4>3. x \in [fold : Nat, params : Params]
        BY <4>1, <4>2
      <4> QED
        BY <4>3 DEF Winners
    <3> QED
      BY <3>2, <3>3, Sequence
  <2>4. Typed'
    <3>1. loop'.todo \in Seq(Evaluations) /\ 0 \in 0..NFolds
      BY <2>1, SizesAssumption
    <3> QED
      BY <1>1, <1>3, <1>7, <2>1, <2>2, <2>3, <3>1 DEF Typed
  <2>5. Phases' /\ Rungs'
    BY <1>7, <2>2 DEF Phases, Rungs
  <2>6. Counted'
    <3>1. n = RungCount
      BY <1>2, <1>7, RungCountIs
    <3>2. PlannedTrain = PlannedBefore[RungCount]
      BY <1>1 DEF PlannedTrain
    <3>3. Cardinality(Trained) <= PlannedTrain /\ Cardinality(Trained) = PlannedTrain
      BY <1>2, <1>3, <3>1, <3>2
    <3>4. Trained' = Trained /\ PlannedTrain' = PlannedTrain
      BY <1>1 DEF Trained, PlannedTrain
    <3> QED
      BY <2>2, <3>3, <3>4 DEF Counted
  <2> QED
    BY <1>5, <2>4, <2>5, <2>6
<1> QED
  BY <1>1, <1>6, <1>7

\* The end of the cross-validation.
LEMMA EndCrossKeeps == ASSUME IInv, SearchInv, EndCross PROVE SearchInv'
<1> USE DEF SearchInv
<1>1. /\ pc = "emit" /\ loop.todo = << >> /\ loop.fold = 0 /\ pc' = "select"
      /\ UNCHANGED <<method, loop, rows, winners>>
  BY DEF EndCross, BatchDone
<1>2. Crossing /\ ~Training' /\ ~Crossing' /\ ~Training
  BY <1>1 DEF Crossing, Training
<1>3. Typed'
  BY <1>1, <1>2 DEF Typed
<1>4. Phases' /\ Rungs' /\ Leading' /\ Climbing'
  BY <1>1, <1>2 DEF Phases, Rungs, Leading, Climbing
<1>5. Won'
  BY <1>1, Zenon DEF Won, Halving, RowsOf
<1>6. Counted'
  BY <1>1, <1>2, Zenon DEF Counted, Exact, Trained, PlannedTrain
<1> QED
  BY <1>3, <1>4, <1>5, <1>6

\* The invariant of the search holds at first.
LEMMA SearchInit == ASSUME Init PROVE SearchInv
<1>1. /\ pc = "idle" /\ loop = Fresh(0) /\ rows = << >> /\ winners = << >> /\ method \in Methods
  BY DEF Init
<1>2. ~Training /\ ~Crossing /\ 0 \in 0..NFolds
  BY <1>1, SizesAssumption DEF Training, Crossing
<1>3. loop.todo = << >> /\ loop.fold = 0
  BY <1>1, FreshFields
<1>4. Typed
  <2>1. rows \in Seq(Trials) /\ winners \in Seq(Winners)
    BY <1>1
  <2>2. loop.todo \in Seq(Evaluations)
    BY <1>3
  <2> QED
    BY <1>1, <1>2, <1>3, <2>1, <2>2 DEF Typed
<1>5. Phases /\ Rungs /\ Leading /\ Climbing /\ Counted
  BY <1>1, <1>2 DEF Phases, Rungs, Leading, Climbing, Counted, Finishing
<1>6. Won
  <2>1. DOMAIN winners = {}
    BY <1>1
  <2> QED
    BY <2>1 DEF Won
<1> QED
  BY <1>4, <1>5, <1>6 DEF SearchInv

\* Every step keeps the invariant of the search.
LEMMA SearchNext == ASSUME IInv, SearchInv, [Next]_vars PROVE SearchInv'
<1>1. CASE Begin
  BY <1>1, ElsewhereKeeps DEF Begin
<1>2. CASE Register
  BY <1>2, RegisterKeeps
<1>3. CASE SearchBatch
  BY <1>3, SearchKeeps
<1>4. CASE CrossValidate
  BY <1>4, CrossKeeps
<1>5. CASE EmitRow
  BY <1>5, EmitKeeps
<1>6. CASE EndOneShot
  BY <1>6, EndOneShotKeeps
<1>7. CASE EndRound
  BY <1>7, EndRoundKeeps
<1>8. CASE EndSeeding
  BY <1>8, EndSeedingKeeps
<1>9. CASE EndPolish
  BY <1>9, EndPolishKeeps
<1>10. CASE EndRung
  BY <1>10, EndRungKeeps
<1>11. CASE EndCross
  BY <1>11, EndCrossKeeps
<1>12. CASE Select \/ CloseTrials \/ WriteBest \/ WriteManifest
  <2>1. /\ UNCHANGED <<method, loop, rows, winners>>
        /\ pc \in {"select", "close"} \cup Finishing /\ pc' \in {"select", "close"} \cup Finishing
    BY <1>12, Zenon DEF Select, CloseTrials, WriteBest, WriteManifest, Finishing
  <2> QED
    BY <2>1, ElsewhereKeeps
<1>13. CASE CompleteIndex \/ Die \/ DieWriting
  <2>1. Forgotten /\ UNCHANGED method
    BY <1>13 DEF CompleteIndex, Die, DieWriting
  <2> QED
    BY <2>1, ForgetKeeps
<1>14. CASE Reselect \/ UNCHANGED vars
  <2>1. UNCHANGED <<method, loop, rows, winners, pc>>
    BY <1>14, Zenon DEF Reselect, process, vars
  <2> QED
    BY <2>1, ElsewhereKeeps
<1> QED
  BY <1>1, <1>2, <1>3, <1>4, <1>5, <1>6, <1>7, <1>8, <1>9, <1>10, <1>11, <1>12, <1>13, <1>14
  DEF Next, Stopped

\* The invariant of the search is inductive, beside that of the files.
THEOREM SearchInvariant == Spec => [](IInv /\ SearchInv)
<1>1. Init => SearchInv
  BY SearchInit
<1>2. IInv /\ SearchInv /\ [Next]_vars => SearchInv'
  BY SearchNext
<1> QED
  BY <1>1, <1>2, InductiveInvariant, PTL DEF Spec

\* A fold's winner is its best accepted trial, whatever the method and its rounds,
\* or some trial of the fold when none was accepted (WinnersAreBest).
THEOREM WinnersAlwaysBest == Spec => []WinnersAreBest
<1>1. SearchInv => WinnersAreBest
  <2> SUFFICES ASSUME SearchInv, ~Halving, NEW w \in DOMAIN winners
               PROVE  \E i \in RowsOf(winners[w].fold) :
                          /\ rows[i].params = winners[w].params
                          /\ \A k \in RowsOf(winners[w].fold) : Score(rows[k]) <= Score(rows[i])
    BY DEF WinnersAreBest, Halving
  <2>1. /\ winners[w].fold = w
        /\ \E i \in RowsOf(w) :
              /\ rows[i].params = winners[w].params
              /\ \A k \in RowsOf(w) : Score(rows[k]) <= Score(rows[i])
    BY DEF SearchInv, Won
  <2> QED
    BY <2>1
<1> QED
  BY <1>1, SearchInvariant, PTL

\* The rungs add up: what is planned before one is no more than the whole plan.
LEMMA PlannedGrows ==
    ASSUME NEW r \in 0..RungCount
    PROVE  PlannedBefore[r] <= PlannedBefore[RungCount] /\ PlannedBefore[r] \in Nat
<1> DEFINE Bad == {k \in 0..RungCount : PlannedBefore[RungCount - k] > PlannedBefore[RungCount]}
<1>1. RungCount \in Nat
  BY RungCountIs
<1>2. \A i \in 0..RungCount : PlannedBefore[i] \in Nat
  BY PlannedBeforeIs
<1>3. ASSUME Bad # {} PROVE FALSE
  <2>1. Bad \in SUBSET Nat
    BY <1>1
  <2>2. PICK k \in Bad : \A j \in Bad : k <= j
    BY <1>3, <2>1, LeastExists
  <2>3. k \in 0..RungCount /\ PlannedBefore[RungCount - k] > PlannedBefore[RungCount]
    OBVIOUS
  <2>4. k # 0
    BY <1>1, <1>2, <2>3
  <2>5. k - 1 \in 0..RungCount /\ RungCount - k \in 0..RungCount /\ RungCount - (k - 1) \in 1..RungCount
        /\ RungCount - (k - 1) - 1 = RungCount - k
    BY <1>1, <2>3, <2>4
  <2>6. PlannedBefore[RungCount - (k - 1)] <= PlannedBefore[RungCount]
    <3>1. k - 1 \notin Bad
      BY <2>1, <2>2, <2>5
    <3>2. RungCount - (k - 1) \in 0..RungCount /\ RungCount \in 0..RungCount
      BY <1>1, <2>5
    <3> QED
      BY <1>2, <2>5, <3>1, <3>2
  <2> PICK i \in 1..RungCount : i = RungCount - (k - 1)
    BY <2>5
  <2>7. i - 1 = RungCount - k /\ i - 1 \in 0..RungCount /\ i \in 0..RungCount /\ RungCount \in 0..RungCount
    BY <1>1, <2>5
  <2>8. PlannedBefore[i] = PlannedBefore[i - 1] + Survivors[i - 1] * Budget(i - 1)
    BY PlannedBeforeIs
  <2>9. Survivors[i - 1] * Budget(i - 1) \in Nat
    <3>1. Survivors[i - 1] \in Nat
      BY <2>7, SurvivorsAre
    <3>2. Budget(i - 1) \in Nat
      BY <2>7, BudgetIs, SizesAssumption
    <3> QED
      BY <3>1, <3>2, Product
  <2>10. PlannedBefore[i - 1] <= PlannedBefore[i]
    BY <1>2, <2>7, <2>8, <2>9
  <2> QED
    BY <1>2, <2>3, <2>6, <2>7, <2>10
<1>4. RungCount - r \in 0..RungCount /\ RungCount - (RungCount - r) = r /\ RungCount \in 0..RungCount
  BY <1>1
<1> QED
  BY <1>2, <1>3, <1>4

\* The folds add up: what is planned before one is no more than the whole plan.
LEMMA FoldsAddUp ==
    ASSUME method \in Methods, ~Halving, NEW f \in 1..NFolds
    PROVE  Until(f + 1, 0) <= PlannedTrain /\ PlannedTrain \in Nat
<1>1. /\ NFolds \in Nat /\ f \in Nat /\ f <= NFolds /\ NParams \in Nat /\ Width \in Nat
      /\ MaxRounds \in Nat /\ TopKPolish \in Nat /\ MaxPolishIters \in Nat
  BY SizesAssumption
<1>2. f + 1 - 1 + 0 = f /\ f + 1 - 1 = f /\ NFolds + 1 - 1 + 0 = NFolds /\ NFolds + 1 - 1 = NFolds
  BY <1>1
<1>3. Until(NFolds + 1, 0) = PlannedTrain
  BY UntilEnd
<1>4. ASSUME NEW a \in Nat, NEW b \in Nat, \A g \in Nat : Until(g + 1, 0) = b * (a * g)
      PROVE  Until(f + 1, 0) <= PlannedTrain /\ PlannedTrain \in Nat
  <2>1. a * f <= a * NFolds /\ a * f \in Nat /\ a * NFolds \in Nat
    BY <1>1, Times, Product
  <2>2. b * (a * f) <= b * (a * NFolds) /\ b * (a * NFolds) \in Nat
    BY <2>1, Times, Product
  <2> QED
    BY <1>1, <1>3, <1>4, <2>2
<1>5. CASE method = "grid"
  <2>1. ASSUME NEW g \in Nat PROVE Until(g + 1, 0) = 1 * (NParams * g)
    <3>1. Until(g + 1, 0) = NParams * (g + 1 - 1 + 0)
      BY <1>5 DEF Until
    <3>2. g + 1 - 1 + 0 = g /\ 1 * (NParams * g) = NParams * g
      BY <1>1
    <3> QED
      BY <3>1, <3>2
  <2> QED
    BY <1>1, <1>4, <2>1
<1>6. CASE method = "random"
  <2>1. ASSUME NEW g \in Nat PROVE Until(g + 1, 0) = 1 * (Width * g)
    <3>1. Until(g + 1, 0) = Width * (g + 1 - 1 + 0)
      BY <1>6 DEF Until
    <3>2. g + 1 - 1 + 0 = g /\ 1 * (Width * g) = Width * g
      BY <1>1
    <3> QED
      BY <3>1, <3>2
  <2> QED
    BY <1>1, <1>4, <2>1
<1>7. CASE method = "recursive_grid"
  <2>1. ASSUME NEW g \in Nat PROVE Until(g + 1, 0) = Width * (MaxRounds * g)
    <3>1. Until(g + 1, 0) = Width * (MaxRounds * (g + 1 - 1) + 0)
      BY <1>7 DEF Until
    <3>2. MaxRounds * g \in Nat /\ g + 1 - 1 = g
      BY <1>1
    <3> QED
      BY <3>1, <3>2
  <2> QED
    BY <1>1, <1>4, <2>1
<1>8. CASE method = "lhs_polish"
  <2> DEFINE c == Width + TopKPolish * 2 * MaxPolishIters
  <2>1. c \in Nat
    <3>1. TopKPolish * 2 \in Nat
      BY <1>1
    <3>2. TopKPolish * 2 * MaxPolishIters \in Nat
      BY <1>1, <3>1, Product
    <3> QED
      BY <1>1, <3>2
  <2>2. ASSUME NEW g \in Nat PROVE Until(g + 1, 0) = 1 * (c * g)
    <3>1. Until(g + 1, 0) = c * (g + 1 - 1) + 0
      BY <1>8 DEF Until
    <3> HIDE DEF c
    <3>2. g + 1 - 1 = g /\ c * g + 0 = 1 * (c * g)
      BY <2>1
    <3> QED
      BY <3>1, <3>2
  <2> HIDE DEF c
  <2> QED
    BY <1>1, <1>4, <2>1, <2>2
<1> QED
  BY <1>5, <1>6, <1>7, <1>8, MethodsAssumption DEF SearchMethods, Halving

\* The plan is a number of runs.
LEMMA PlanIs == ASSUME method \in Methods PROVE PlannedTrain \in Nat
<1>1. CASE Halving
  <2>1. PlannedTrain = PlannedBefore[RungCount]
    BY <1>1 DEF PlannedTrain, Halving
  <2>2. RungCount \in 0..RungCount
    BY RungCountIs
  <2> QED
    BY <2>1, <2>2, PlannedGrows
<1>2. CASE ~Halving
  <2>1. 1 \in 1..NFolds
    BY SizesAssumption
  <2> QED
    BY <1>2, <2>1, FoldsAddUp
<1> QED
  BY <1>1, <1>2

\* While it trains, a search stays within its plan.
LEMMA TrainsWithin ==
    ASSUME IInv, SearchInv, Training
    PROVE  Len(rows) <= PlannedTrain
<1>1. /\ TypeOK /\ loop.round \in Nat /\ Len(rows) \in Nat /\ method \in Methods
      /\ Len(rows) + Len(loop.todo) <= Until(loop.fold, loop.round + Emitting)
  BY DEF IInv, TypeOK, SearchInv, Typed, Counted
<1>2. loop.fold \in 1..NFolds /\ pc \in {"ask", "emit"} /\ Len(loop.todo) \in Nat
  BY SizesAssumption DEF Training, SearchInv, Typed
<1>3. CASE Halving
  <2>1. loop.round < RungCount
    BY <1>3 DEF SearchInv, Rungs
  <2>2. loop.round + Emitting \in 0..RungCount
    BY <1>1, <2>1, RungCountIs DEF Emitting
  <2>3. Until(loop.fold, loop.round + Emitting) = PlannedBefore[loop.round + Emitting]
    BY <1>3 DEF Until, Halving
  <2>4. PlannedTrain = PlannedBefore[RungCount]
    BY <1>3 DEF PlannedTrain, Halving
  <2> PICK n \in 0..RungCount : n = loop.round + Emitting
    BY <2>2
  <2>5. PlannedBefore[n] <= PlannedBefore[RungCount] /\ PlannedBefore[n] \in Nat
    BY PlannedGrows
  <2>6. PlannedTrain \in Nat
    BY <1>1, PlanIs
  <2> QED
    BY <1>1, <1>2, <2>3, <2>4, <2>5, <2>6
<1>4. CASE ~Halving
  <2>1. /\ Until(loop.fold, loop.round + 1) \in Int /\ Until(loop.fold + 1, 0) \in Int
        /\ Until(loop.fold, loop.round + 1) <= Until(loop.fold + 1, 0)
    BY <1>1, <1>4, UntilNext DEF SearchInv
  <2>2. Until(loop.fold + 1, 0) <= PlannedTrain /\ PlannedTrain \in Nat
    BY <1>1, <1>2, <1>4, FoldsAddUp
  <2>3. Len(rows) <= Until(loop.fold, loop.round + 1)
    <3>1. CASE pc = "emit"
      <4>1. Emitting = 1
        BY <3>1 DEF Emitting
      <4> QED
        BY <1>1, <1>2, <2>1, <4>1
    <3>2. CASE pc = "ask"
      <4>1. /\ Until(loop.fold, loop.round) \in Int /\ BatchSize \in Nat
            /\ Until(loop.fold, loop.round) + BatchSize <= Until(loop.fold, loop.round + 1)
        BY <1>1, <3>2, UntilGrows DEF SearchInv
      <4>2. Emitting = 0 /\ loop.round + 0 = loop.round
        BY <1>1, <3>2 DEF Emitting
      <4> QED
        BY <1>1, <1>2, <2>1, <4>1, <4>2
    <3> QED
      BY <1>2, <3>1, <3>2
  <2> QED
    BY <1>1, <2>1, <2>2, <2>3
<1> QED
  BY <1>3, <1>4

\* The search commissions the runs that planned_run_count announces and never
\* more, exactly those when the method cannot stop early (SearchIsAsPlanned).
THEOREM SearchAlwaysAsPlanned == Spec => []SearchIsAsPlanned
<1>1. IInv /\ SearchInv => SearchIsAsPlanned
  <2> SUFFICES ASSUME IInv, SearchInv PROVE SearchIsAsPlanned
    OBVIOUS
  <2>1. /\ pc \in Steps /\ method \in Methods /\ loop.fold \in 0..NFolds
        /\ rows \in Seq(Trials) /\ (pc = "ask" => loop.fold > 0)
    BY DEF IInv, TypeOK, SearchInv, Typed
  <2>2. SearchIsAsPlanned <=>
            /\ Cardinality(Trained) <= PlannedTrain
            /\ pc \in {"cross", "select", "close"} /\ Exact => Cardinality(Trained) = PlannedTrain
    BY DEF SearchIsAsPlanned, Trained, Exact
  <2>3. CASE Training
    <3>1. Len(rows) <= PlannedTrain /\ PlannedTrain \in Nat
      BY <2>1, <2>3, TrainsWithin, PlanIs
    <3>2. Cardinality(Trained) <= Len(rows) /\ Cardinality(Trained) \in Nat /\ Len(rows) \in Nat
      <4>1. IsFiniteSet(DOMAIN rows) /\ Cardinality(DOMAIN rows) = Len(rows) /\ Len(rows) \in Nat
        BY <2>1, Places
      <4>2. Trained \in SUBSET DOMAIN rows
        BY DEF Trained
      <4> QED
        BY <4>1, <4>2, FS_Subset, FS_CardinalityType
    <3> QED
      BY <2>2, <2>3, <3>1, <3>2 DEF Training
  <2>4. CASE Crossing \/ pc \in {"select", "close"} \cup Finishing
    BY <2>2, <2>4 DEF SearchInv, Counted
  <2>5. CASE pc \in {"idle", "index"}
    <3>1. rows = << >>
      BY <2>5 DEF IInv, NoRowLost, Searching
    <3>2. Trained = {}
      BY <3>1 DEF Trained
    <3>3. Cardinality(Trained) = 0 /\ PlannedTrain \in Nat
      BY <2>1, <3>2, FS_EmptySet, PlanIs
    <3> QED
      BY <2>2, <2>5, <3>3
  <2> QED
    BY <2>1, <2>3, <2>4, <2>5 DEF Steps, Training, Crossing, Finishing
<1> QED
  BY <1>1, SearchInvariant, PTL

-----------------------------------------------------------------------------
(* The selection layer                                                     *)

Candidates == [params : Params, acc : BOOLEAN, oos : [Folds -> Int], score : Int]

\* The points of a history, by the trial they come from.
IsHistory(h) == IsFiniteSet(DOMAIN h) /\ \A i \in DOMAIN h : h[i].score \in Int

\* A compares four keys one after the other, the last one the other way round.
Compares(A, S, a, b, c, d) ==
    /\ \A i \in S : a[i] \in Int /\ b[i] \in Int /\ c[i] \in Int /\ d[i] \in Int
    /\ \A i, k \in S : <<i, k>> \in A <=>
          \/ a[i] > a[k]
          \/ a[i] = a[k] /\ b[i] > b[k]
          \/ a[i] = a[k] /\ b[i] = b[k] /\ c[i] > c[k]
          \/ a[i] = a[k] /\ b[i] = b[k] /\ c[i] = c[k] /\ d[i] < d[k]

\* That is a weak order.
LEMMA KeysOrder ==
    ASSUME NEW S, NEW A, NEW a, NEW b, NEW c, NEW d, Compares(A, S, a, b, c, d)
    PROVE  OrdersWeakly(A, S)
<1> DEFINE Above(i, k) ==
              \/ a[i] > a[k]
              \/ a[i] = a[k] /\ b[i] > b[k]
              \/ a[i] = a[k] /\ b[i] = b[k] /\ c[i] > c[k]
              \/ a[i] = a[k] /\ b[i] = b[k] /\ c[i] = c[k] /\ d[i] < d[k]
<1>1. \A i, k \in S : <<i, k>> \in A <=> Above(i, k)
  BY DEF Compares
<1>2. \A i \in S : a[i] \in Int /\ b[i] \in Int /\ c[i] \in Int /\ d[i] \in Int
  BY DEF Compares
<1>3. \A i, k \in S : Above(i, k) => ~Above(k, i)
  BY <1>2
<1>4. \A i, j, k \in S : ~Above(i, j) /\ ~Above(j, k) => ~Above(i, k)
  BY <1>2
<1> HIDE DEF Above
<1>5. \A i, k \in S : <<i, k>> \in A => <<k, i>> \notin A
  BY <1>1, <1>3
<1>6. \A i, j, k \in S : <<i, j>> \notin A /\ <<j, k>> \notin A => <<i, k>> \notin A
  BY <1>1, <1>4
<1> QED
  BY <1>5, <1>6 DEF OrdersWeakly

\* The candidates taken to the selection are some of those there are.
LEMMA TopCandidatesAre ==
    ASSUME NEW cands \in Seq(Candidates), cands # << >>
    PROVE  LET top == TopCandidates(cands)
           IN  /\ top \in Seq(Candidates) /\ Len(top) \in Nat \ {0}
               /\ \A k \in DOMAIN top : \E i \in DOMAIN cands : top[k] = cands[i]
<1> DEFINE S == DOMAIN cands
           Above(i, k) == \/ (cands[i].acc /\ ~cands[k].acc)
                          \/ (cands[i].acc = cands[k].acc /\ cands[i].score > cands[k].score)
           o == Ranked(S, Above)
           first == Prefix(o, TopK)
           a == [i \in S |-> IF cands[i].acc THEN 1 ELSE 0]
           b == [i \in S |-> cands[i].score]
           z == [i \in S |-> 0]
           A == {p \in S \X S :
                    \/ a[p[1]] > a[p[2]]
                    \/ a[p[1]] = a[p[2]] /\ b[p[1]] > b[p[2]]
                    \/ a[p[1]] = a[p[2]] /\ b[p[1]] = b[p[2]] /\ z[p[1]] > z[p[2]]
                    \/ a[p[1]] = a[p[2]] /\ b[p[1]] = b[p[2]] /\ z[p[1]] = z[p[2]] /\ z[p[1]] < z[p[2]]}
<1> PICK n \in Nat : n = Len(cands)
  OBVIOUS
<1>1. /\ S = 1..n /\ S \in SUBSET Nat /\ IsFiniteSet(S) /\ Cardinality(S) = n
      /\ \A i \in S : cands[i] \in Candidates
  BY Places
<1>2. n # 0
  OBVIOUS
<1>3. \A i \in S : cands[i].acc \in BOOLEAN /\ cands[i].score \in Int
  BY <1>1 DEF Candidates
<1>4. \A i \in S : a[i] \in Int /\ b[i] \in Int /\ z[i] \in Int
  BY <1>3
<1>5. OrdersWeakly(A, S)
  <2> HIDE DEF a, b, z, S
  <2>1. \A i, k \in S : <<i, k>> \in A <=>
            \/ a[i] > a[k]
            \/ a[i] = a[k] /\ b[i] > b[k]
            \/ a[i] = a[k] /\ b[i] = b[k] /\ z[i] > z[k]
            \/ a[i] = a[k] /\ b[i] = b[k] /\ z[i] = z[k] /\ z[i] < z[k]
    OBVIOUS
  <2> HIDE DEF A
  <2>2. Compares(A, S, a, b, z, z)
    BY <1>4, <2>1 DEF Compares
  <2> QED
    BY <2>2, KeysOrder
<1>6. ASSUME NEW i \in S, NEW k \in S PROVE <<i, k>> \in A <=> Above(i, k)
  <2>1. <<i, k>> \in A <=> a[i] > a[k] \/ (a[i] = a[k] /\ b[i] > b[k])
    BY <1>4
  <2>2. cands[i].acc \in BOOLEAN /\ cands[k].acc \in BOOLEAN
    BY <1>3
  <2>3. a[i] = (IF cands[i].acc THEN 1 ELSE 0) /\ a[k] = (IF cands[k].acc THEN 1 ELSE 0)
        /\ b[i] = cands[i].score /\ b[k] = cands[k].score
    OBVIOUS
  <2> HIDE DEF A, a, b
  <2>4. a[i] > a[k] <=> cands[i].acc /\ ~cands[k].acc
    BY <2>3
  <2>5. a[i] = a[k] <=> (cands[i].acc <=> cands[k].acc)
    BY <2>3
  <2>6. (cands[i].acc <=> cands[k].acc) <=> cands[i].acc = cands[k].acc
    BY <2>2, Zenon
  <2> QED
    BY <2>1, <2>3, <2>4, <2>5, <2>6, Zenon
<1> HIDE DEF Above, A, a, b, z
<1>7. o = Ordered(S, Stably(S, A))
  <2>1. Stably(S, A) = {p \in S \X S : \/ Above(p[1], p[2])
                                       \/ (~Above(p[2], p[1]) /\ p[1] < p[2])}
    <3> HIDE DEF S
    <3>1. \A p \in S \X S : p = <<p[1], p[2]>> /\ p[1] \in S /\ p[2] \in S
      OBVIOUS
    <3>2. \A p \in S \X S : (p \in A <=> Above(p[1], p[2])) /\ (<<p[2], p[1]>> \in A <=> Above(p[2], p[1]))
      BY <1>6, <3>1
    <3> QED
      BY <3>2 DEF Stably
  <2> QED
    BY <2>1 DEF Ranked
<1> HIDE DEF o
<1>8. o \in [1..n -> S]
  <2>1. Enumerates(o, S, A)
    BY <1>1, <1>5, <1>7, StablyIs
  <2> QED
    BY <1>1, <2>1 DEF Enumerates
<1> HIDE DEF S
<1>9. o \in Seq(S) /\ Len(o) = n
  BY <1>8
<1>10. /\ first \in Seq(S) /\ Len(first) = IF TopK <= n THEN TopK ELSE n
       /\ DOMAIN first = 1..Len(first) /\ \A k \in 1..Len(first) : first[k] \in S
  <2>1. TopK \in Nat
    BY KnobsAssumption
  <2>2. first \in Seq(S) /\ Len(first) = IF TopK <= n THEN TopK ELSE n
    BY <1>9, <2>1, PrefixIs
  <2> HIDE DEF first
  <2> QED
    BY <2>2, Places
<1>11. TopCandidates(cands) = [k \in DOMAIN first |-> cands[first[k]]]
  BY DEF TopCandidates, first, o, Above, S
<1> HIDE DEF first
<1> PICK m \in Nat : m = Len(first)
  BY <1>10, KnobsAssumption
<1> PICK top : top = TopCandidates(cands)
  OBVIOUS
<1>12. /\ DOMAIN top = 1..m /\ top = [k \in 1..m |-> top[k]]
       /\ \A k \in 1..m : top[k] = cands[first[k]] /\ first[k] \in S
  BY <1>10, <1>11
<1>13. \A k \in 1..m : top[k] \in Candidates
  BY <1>1, <1>12
<1>14. top \in Seq(Candidates) /\ Len(top) = m
  BY <1>12, <1>13, Sequence
<1>15. m # 0
  BY <1>2, <1>10, KnobsAssumption
<1> QED
  BY <1>12, <1>14, <1>15 DEF S

\* The robust score is a number.
LEMMA RobustIs ==
    ASSUME NEW c, c.score \in Int, NEW h, IsHistory(h)
    PROVE  Robust(c, h) \in Int
<1> DEFINE pool == [i \in DOMAIN h \cup {0} |->
                      IF i = 0 THEN [params |-> c.params, score |-> c.score] ELSE h[i]]
           s == Neighborhood(c, h)
<1>1. IsFiniteSet(DOMAIN h \cup {0}) /\ DOMAIN pool = DOMAIN h \cup {0}
  BY FS_AddElement DEF IsHistory
<1>2. \A i \in DOMAIN pool : pool[i].score \in Int
  BY DEF IsHistory
<1>3. DOMAIN s \in SUBSET DOMAIN pool /\ \A i \in DOMAIN s : s[i] = pool[i].score
  BY DEF Neighborhood
<1> HIDE DEF pool
<1>4. IsFiniteSet(DOMAIN s) /\ \A i \in DOMAIN s : s[i] \in Int
  BY <1>1, <1>2, <1>3, FS_Subset
<1>5. Robust(c, h) = IF DOMAIN s = {} THEN c.score ELSE SumOver(DOMAIN s, s)
  BY DEF Robust
<1> HIDE DEF s
<1>6. SumOver(DOMAIN s, s) \in Int
  BY <1>4, SumType
<1> QED
  BY <1>5, <1>6

\* So is the variance of a candidate's metric over the folds.
LEMMA SpreadIs == ASSUME NEW c, c.oos \in [Folds -> Int] PROVE Spread(c) \in Int
<1> DEFINE sq == [f \in Folds |-> c.oos[f] * c.oos[f]]
<1>1. IsFiniteSet(Folds) /\ Cardinality(Folds) = NFolds /\ NFolds \in Nat
  BY SizesAssumption, Upto DEF Folds
<1>2. SumOver(Folds, c.oos) \in Int
  <2>1. \A f \in Folds : c.oos[f] \in Int
    OBVIOUS
  <2> QED
    BY <1>1, <2>1, SumType
<1>3. SumOver(Folds, sq) \in Int
  <2>1. \A f \in Folds : sq[f] \in Int
    <3> TAKE f \in Folds
    <3> PICK x \in Int : x = c.oos[f]
      OBVIOUS
    <3>1. x * x \in Int
      OBVIOUS
    <3> QED
      BY <3>1
  <2> HIDE DEF sq
  <2> QED
    BY <1>1, <2>1, SumType
<1>4. Spread(c) = Cardinality(Folds) * SumOver(Folds, sq) - SumOver(Folds, c.oos) * SumOver(Folds, c.oos)
  <2>1. DOMAIN c.oos = Folds
    OBVIOUS
  <2> QED
    BY <2>1 DEF Spread
<1> PICK x \in Int : x = SumOver(Folds, c.oos)
  BY <1>2
<1> PICK y \in Int : y = SumOver(Folds, sq)
  BY <1>3
<1>5. Spread(c) = NFolds * y - x * x
  BY <1>1, <1>4
<1>6. NFolds * y \in Int /\ x * x \in Int
  BY <1>1
<1> QED
  BY <1>5, <1>6

\* The selection picks one of the candidates.
LEMMA BestOfIs ==
    ASSUME NEW cands \in Seq(Candidates), cands # << >>, NEW history, IsHistory(history),
           NEW robustly, NEW dsr, \A i \in DOMAIN cands : dsr[cands[i].params] \in Int
    PROVE  \E i \in DOMAIN cands : BestOf(cands, history, robustly, dsr) = cands[i]
<1> DEFINE top == TopCandidates(cands)
           Key(c) == IF robustly THEN Robust(c, history) ELSE dsr[c.params]
           Over(c, d) ==
               \/ c.acc /\ ~d.acc
               \/ /\ c.acc = d.acc
                  /\ LET key == <<Key(c), Key(d)>>
                     IN  \/ key[1] > key[2]
                         \/ /\ key[1] = key[2]
                            /\ \/ c.score > d.score
                               \/ c.score = d.score /\ Spread(c) < Spread(d)
           S == DOMAIN top
           Above(i, k) == Over(top[i], top[k])
           o == Ranked(S, LAMBDA i, k : Over(top[i], top[k]))
           byA == [i \in S |-> IF top[i].acc THEN 1 ELSE 0]
           byB == [i \in S |-> Key(top[i])]
           byC == [i \in S |-> top[i].score]
           byD == [i \in S |-> Spread(top[i])]
           A == {p \in S \X S :
                    \/ byA[p[1]] > byA[p[2]]
                    \/ byA[p[1]] = byA[p[2]] /\ byB[p[1]] > byB[p[2]]
                    \/ byA[p[1]] = byA[p[2]] /\ byB[p[1]] = byB[p[2]] /\ byC[p[1]] > byC[p[2]]
                    \/ byA[p[1]] = byA[p[2]] /\ byB[p[1]] = byB[p[2]] /\ byC[p[1]] = byC[p[2]] /\ byD[p[1]] < byD[p[2]]}
<1>1. /\ top \in Seq(Candidates) /\ Len(top) \in Nat \ {0}
      /\ \A k \in DOMAIN top : \E i \in DOMAIN cands : top[k] = cands[i]
  BY TopCandidatesAre
<1>2. BestOf(cands, history, robustly, dsr) = top[o[1]]
  BY DEF BestOf
<1> HIDE DEF top
<1> PICK n \in Nat \ {0} : n = Len(top)
  BY <1>1
<1>3. /\ S = 1..n /\ S \in SUBSET Nat /\ IsFiniteSet(S) /\ Cardinality(S) = n
      /\ \A i \in S : top[i] \in Candidates
  BY <1>1, Places
<1>4. ASSUME NEW i \in S
      PROVE  top[i].acc \in BOOLEAN /\ top[i].score \in Int /\ Key(top[i]) \in Int /\ Spread(top[i]) \in Int
  <2> PICK x \in Candidates : x = top[i]
    BY <1>3
  <2>1. x.acc \in BOOLEAN /\ x.score \in Int /\ x.oos \in [Folds -> Int]
    BY DEF Candidates
  <2>2. Spread(x) \in Int
    BY <2>1, SpreadIs
  <2>3. Key(x) \in Int
    <3>1. Robust(x, history) \in Int
      BY <2>1, RobustIs
    <3>2. dsr[x.params] \in Int
      BY <1>1
    <3> QED
      BY <3>1, <3>2
  <2> QED
    BY <2>1, <2>2, <2>3
<1> HIDE DEF Key
<1>5. \A i \in S : byA[i] \in Int /\ byB[i] \in Int /\ byC[i] \in Int /\ byD[i] \in Int
  BY <1>4
<1>6. OrdersWeakly(A, S)
  <2> HIDE DEF byA, byB, byC, byD, S, Over, o
  <2>1. \A i, k \in S : <<i, k>> \in A <=>
            \/ byA[i] > byA[k]
            \/ byA[i] = byA[k] /\ byB[i] > byB[k]
            \/ byA[i] = byA[k] /\ byB[i] = byB[k] /\ byC[i] > byC[k]
            \/ byA[i] = byA[k] /\ byB[i] = byB[k] /\ byC[i] = byC[k] /\ byD[i] < byD[k]
    OBVIOUS
  <2>2. \A i \in S : byA[i] \in Int /\ byB[i] \in Int /\ byC[i] \in Int /\ byD[i] \in Int
    BY <1>5
  <2> HIDE DEF A
  <2>3. Compares(A, S, byA, byB, byC, byD)
    BY <2>1, <2>2 DEF Compares
  <2> QED
    BY <2>3, KeysOrder
<1>7. ASSUME NEW i \in S, NEW k \in S PROVE <<i, k>> \in A <=> Above(i, k)
  <2>1. <<i, k>> \in A <=>
            \/ byA[i] > byA[k]
            \/ byA[i] = byA[k] /\ byB[i] > byB[k]
            \/ byA[i] = byA[k] /\ byB[i] = byB[k] /\ byC[i] > byC[k]
            \/ byA[i] = byA[k] /\ byB[i] = byB[k] /\ byC[i] = byC[k] /\ byD[i] < byD[k]
    <3> HIDE DEF byA, byB, byC, byD, S
    <3> QED
      OBVIOUS
  <2>2. top[i].acc \in BOOLEAN /\ top[k].acc \in BOOLEAN
    BY <1>4
  <2>3. /\ byA[i] = (IF top[i].acc THEN 1 ELSE 0) /\ byA[k] = (IF top[k].acc THEN 1 ELSE 0)
        /\ byB[i] = Key(top[i]) /\ byB[k] = Key(top[k]) /\ byC[i] = top[i].score /\ byC[k] = top[k].score
        /\ byD[i] = Spread(top[i]) /\ byD[k] = Spread(top[k])
    OBVIOUS
  <2> HIDE DEF A, byA, byB, byC, byD
  <2>4. byA[i] > byA[k] <=> top[i].acc /\ ~top[k].acc
    BY <2>3
  <2>5. byA[i] = byA[k] <=> (top[i].acc <=> top[k].acc)
    BY <2>3
  <2>6. (top[i].acc <=> top[k].acc) <=> top[i].acc = top[k].acc
    BY <2>2, Zenon
  <2>7. Above(i, k) <=>
            \/ top[i].acc /\ ~top[k].acc
            \/ /\ top[i].acc = top[k].acc
               /\ \/ Key(top[i]) > Key(top[k])
                  \/ /\ Key(top[i]) = Key(top[k])
                     /\ \/ top[i].score > top[k].score
                        \/ top[i].score = top[k].score /\ Spread(top[i]) < Spread(top[k])
    OBVIOUS
  <2> HIDE DEF Above
  <2> QED
    BY <2>1, <2>3, <2>4, <2>5, <2>6, <2>7, Zenon
<1> HIDE DEF A, byA, byB, byC, byD
<1>8. o = Ordered(S, Stably(S, A))
  <2>1. Stably(S, A) = {p \in S \X S : \/ Above(p[1], p[2])
                                       \/ (~Above(p[2], p[1]) /\ p[1] < p[2])}
    <3> HIDE DEF S, Above
    <3>1. \A p \in S \X S : p = <<p[1], p[2]>> /\ p[1] \in S /\ p[2] \in S
      OBVIOUS
    <3>2. \A p \in S \X S : (p \in A <=> Above(p[1], p[2])) /\ (<<p[2], p[1]>> \in A <=> Above(p[2], p[1]))
      BY <1>7, <3>1
    <3> QED
      BY <3>2 DEF Stably
  <2> HIDE DEF Over
  <2> QED
    BY <2>1 DEF Ranked
<1> HIDE DEF o
<1>9. o \in [1..n -> S]
  <2>1. Enumerates(o, S, A)
    BY <1>3, <1>6, <1>8, StablyIs
  <2> QED
    BY <1>3, <2>1 DEF Enumerates
<1>10. o[1] \in S
  <2>1. 1 \in 1..n
    OBVIOUS
  <2> QED
    BY <1>9, <2>1
<1> QED
  BY <1>1, <1>2, <1>10

\* What is selected is a candidate that every fold accepted.
LEMMA SelectionIs ==
    ASSUME NEW cands \in Seq(Candidates), NEW history, IsHistory(history),
           NEW robustly, NEW dsr, \A i \in DOMAIN cands : dsr[cands[i].params] \in Int, NEW force
    PROVE  RunSelection(cands, history, robustly, dsr, force).pick # << >> =>
               \E i \in DOMAIN cands :
                  RunSelection(cands, history, robustly, dsr, force).pick = << cands[i] >> /\ cands[i].acc
<1> DEFINE leader == BestOf(cands, history, robustly, dsr)
           chosen == RunSelection(cands, history, robustly, dsr, force).pick
<1> SUFFICES ASSUME chosen # << >>
             PROVE  \E i \in DOMAIN cands : chosen = << cands[i] >> /\ cands[i].acc
  OBVIOUS
<1>1. cands # << >> /\ leader.acc /\ chosen = << leader >>
  <2> HIDE DEF leader
  <2>1. RunSelection(cands, history, robustly, dsr, force) =
            IF cands = << >> THEN [status |-> "rejected_constraint", pick |-> << >>]
            ELSE IF ~force /\ Overfit(TopCandidates(cands))
            THEN [status |-> "rejected_pbo", pick |-> << >>]
            ELSE IF ~leader.acc THEN [status |-> "rejected_constraint", pick |-> << >>]
            ELSE [status |-> "accepted", pick |-> << leader >>]
    BY DEF RunSelection, leader
  <2> QED
    BY <2>1
<1>2. PICK i \in DOMAIN cands : leader = cands[i]
  BY <1>1, BestOfIs
<1> QED
  BY <1>1, <1>2

\* The points of the training trials, and what is read back of them.
LEMMA HistoryIs ==
    ASSUME NEW rs \in Seq(Trials)
    PROVE  IsHistory(History(rs)) /\ IsHistory(Clamp(History(rs)))
<1> DEFINE h == History(rs)
           S == {k \in DOMAIN rs : rs[k].slice = "train"}
<1>1. IsFiniteSet(DOMAIN rs) /\ \A i \in DOMAIN rs : rs[i] \in Trials
  BY Places
<1>2. IsFiniteSet(S) /\ S \in SUBSET DOMAIN rs
  BY <1>1, FS_Subset
<1>3. h = [i \in S |-> Point(rs[i])]
  BY DEF History
<1> HIDE DEF S, h
<1>4. DOMAIN h = S /\ \A i \in S : h[i] = Point(rs[i])
  BY <1>3
<1>5. ASSUME NEW i \in S
      PROVE  /\ h[i] = [params |-> rs[i].params, score |-> h[i].score] /\ h[i].score \in Int
             /\ SafeFloat(h[i].score) \in Int
  <2> PICK r \in Trials : r = rs[i]
    BY <1>1, <1>2
  <2>1. r.m \in Int /\ NFolds \in Nat
    BY SizesAssumption DEF Trials
  <2>2. NFolds * r.m \in Int
    BY <2>1
  <2>3. h[i] = [params |-> r.params, score |-> IF r.acc THEN NFolds * r.m ELSE NegInf]
    BY <1>4 DEF Point
  <2> QED
    BY <2>2, <2>3, ClampAssumption DEF SafeFloat
<1>6. IsHistory(h)
  BY <1>2, <1>4, <1>5 DEF IsHistory
<1>7. IsHistory(Clamp(h))
  <2>1. /\ DOMAIN Clamp(h) = S
        /\ \A i \in S : Clamp(h)[i] = [h[i] EXCEPT !.score = SafeFloat(h[i].score)]
    BY <1>4 DEF Clamp
  <2>2. \A i \in S : Clamp(h)[i].score = SafeFloat(h[i].score)
    BY <1>5, <2>1
  <2> QED
    BY <1>2, <1>5, <2>1, <2>2 DEF IsHistory
<1> QED
  BY <1>6, <1>7 DEF h

\* The candidates, read back, are the same but for their scores.
LEMMA ClampedIs ==
    ASSUME NEW s \in Seq(Candidates)
    PROVE  /\ Clamp(s) \in Seq(Candidates) /\ DOMAIN Clamp(s) = DOMAIN s
           /\ \A i \in DOMAIN s : Clamp(s)[i].params = s[i].params /\ Clamp(s)[i].acc = s[i].acc
<1> PICK n \in Nat : n = Len(s)
  OBVIOUS
<1>1. DOMAIN s = 1..n /\ \A i \in 1..n : s[i] \in Candidates
  BY Places
<1> PICK c : c = Clamp(s)
  OBVIOUS
<1>2. /\ DOMAIN c = 1..n /\ c = [i \in 1..n |-> c[i]]
      /\ \A i \in 1..n : c[i] = [s[i] EXCEPT !.score = SafeFloat(s[i].score)]
  BY <1>1 DEF Clamp
<1>3. ASSUME NEW i \in 1..n
      PROVE  c[i] \in Candidates /\ c[i].params = s[i].params /\ c[i].acc = s[i].acc
  <2> PICK x \in Candidates : x = s[i]
    BY <1>1
  <2>1. x.score \in Int /\ SafeFloat(x.score) \in Int
    BY ClampAssumption DEF Candidates, SafeFloat
  <2> QED
    BY <1>2, <2>1 DEF Candidates
<1>4. c \in Seq(Candidates)
  BY <1>2, <1>3, Sequence
<1> QED
  BY <1>1, <1>2, <1>3, <1>4

\* The place of a row and a column in a grid, taken apart.
LEMMA GridCell ==
    ASSUME NEW b \in Nat \ {0}, NEW w \in Nat \ {0}, NEW f \in 1..b
    PROVE  /\ (((w - 1) * b + f - 1) % b) + 1 = f
           /\ (((w - 1) * b + f - 1) \div b) + 1 = w
<1> DEFINE x == (w - 1) * b + f - 1
           q == x \div b
           r == x % b
<1>1. (w - 1) * b \in Nat
  BY Product
<1>2. x \in Nat /\ f - 1 \in 0..(b - 1)
  BY <1>1
<1>3. q \in Nat /\ r \in 0..(b - 1) /\ x = b * q + r
  BY <1>2, Divided
<1>4. b * q + r = b * (w - 1) + (f - 1)
  <2>1. (w - 1) * b = b * (w - 1)
    OBVIOUS
  <2> QED
    BY <1>1, <1>3, <2>1
<1> PICK t \in Nat : t = w - 1
  OBVIOUS
<1> HIDE DEF x, q, r
<1>5. ASSUME q < t PROVE FALSE
  <2>1. b * (q + 1) <= b * t /\ b * (q + 1) \in Int /\ b * t \in Int
    BY <1>3, <1>5, Times
  <2>2. b * (q + 1) = b * q + b /\ b * q \in Int
    BY <1>3
  <2> QED
    BY <1>2, <1>3, <1>4, <2>1, <2>2
<1>6. ASSUME t < q PROVE FALSE
  <2>1. b * (t + 1) <= b * q /\ b * (t + 1) \in Int /\ b * q \in Int
    BY <1>3, <1>6, Times
  <2>2. b * (t + 1) = b * t + b /\ b * t \in Int
    OBVIOUS
  <2> QED
    BY <1>2, <1>3, <1>4, <2>1, <2>2
<1>7. q = t
  BY <1>3, <1>5, <1>6
<1>8. r = f - 1
  <2>1. b * q \in Int
    BY <1>3
  <2> QED
    BY <1>2, <1>3, <1>4, <1>7, <2>1
<1> QED
  BY <1>7, <1>8 DEF q, r, x

-----------------------------------------------------------------------------
(* The cross-validation                                                    *)

CrossSize == Len(winners) * NFolds

\* The j-th evaluation of the cross-validation: row by row, one for each winner.
Matches(e, j) ==
    /\ e.slice = "oos" /\ e.fold = ((j - 1) % NFolds) + 1
    /\ e.params = winners[((j - 1) \div NFolds) + 1].params

\* The last trials of a run are its cross-validation, in the order of the batch.
Crossed == CrossSize - Len(loop.todo)
Aligned ==
    /\ pc = "emit" /\ loop.fold = 0 =>
        /\ Crossed \in 0..Len(rows)
        /\ \A j \in 1..Crossed : Matches(rows[Len(rows) - Crossed + j], j)
        /\ \A j \in DOMAIN loop.todo : Matches(loop.todo[j], Crossed + j)
    /\ pc \in {"select", "close", "best"} =>
        /\ CrossSize \in 0..Len(rows)
        /\ \A j \in 1..CrossSize : Matches(Recent(CrossSize, j), j)

\* What is asked for in the cross-validation.
LEMMA CrossBatchIs ==
    ASSUME SearchInv
    PROVE  /\ CrossBatch \in Seq(Plans) /\ Len(CrossBatch) = CrossSize /\ CrossSize \in Nat
           /\ DOMAIN CrossBatch = 1..CrossSize
           /\ \A j \in 1..CrossSize : Matches(CrossBatch[j], j)
<1> DEFINE ps == [w \in DOMAIN winners |-> winners[w].params]
<1> PICK n : n = Len(winners)
  OBVIOUS
<1>1. n \in Nat /\ DOMAIN winners = 1..n /\ \A w \in 1..n : winners[w] \in Winners
  BY Places DEF SearchInv, Typed
<1>2. /\ DOMAIN ps = 1..n /\ ps = [i \in 1..n |-> ps[i]]
      /\ \A i \in 1..n : ps[i] \in Params /\ ps[i] = winners[i].params
  BY <1>1 DEF Winners
<1>3. CrossBatch = Grid(ps, NFolds, "oos")
  BY DEF CrossBatch
<1> HIDE DEF ps
<1>4. ps \in Seq(Params) /\ Len(ps) = n
  BY <1>1, <1>2, Sequence
<1>5. NFolds \in 1..NFolds /\ NFolds \in Nat \ {0} /\ "oos" \in Slices
  BY SizesAssumption DEF Slices
<1> PICK m : m = n * NFolds
  OBVIOUS
<1> PICK g : g = Grid(ps, NFolds, "oos")
  OBVIOUS
<1>6. g \in Seq(Plans) /\ Len(g) = m /\ m \in Nat /\ DOMAIN g = 1..m
  <2>1. g \in Seq(Plans) /\ Len(g) = m /\ m \in Nat
    BY <1>4, <1>5, GridIs
  <2> QED
    BY <2>1, Places
<1>7. ASSUME NEW j \in 1..m PROVE Matches(g[j], j)
  <2> DEFINE w == ((j - 1) \div NFolds) + 1
             f == ((j - 1) % NFolds) + 1
  <2>1. w \in 1..n
    BY <1>1, <1>5, InGrid
  <2>2. g[j] = Planned(ps[w], f, "oos")
    BY <1>4 DEF Grid
  <2>3. Matches(g[j], j) <=> g[j].slice = "oos" /\ g[j].fold = f /\ g[j].params = winners[w].params
    BY DEF Matches
  <2> HIDE DEF w, f
  <2> QED
    BY <1>2, <2>1, <2>2, <2>3 DEF Planned
<1>8. m = CrossSize
  BY DEF CrossSize
<1> QED
  BY <1>3, <1>6, <1>7, <1>8

\* An evaluation keeps the parameters, the fold and the slice of what was asked.
LEMMA MatchesSame ==
    ASSUME NEW a, NEW b, NEW j, Matches(a, j),
           b.params = a.params, b.fold = a.fold, b.slice = a.slice
    PROVE  Matches(b, j)
  BY DEF Matches

\* The cross-validation begins with everything to be recorded.
LEMMA CrossAligns == ASSUME IInv, SearchInv, CrossValidate PROVE Aligned'
<1>1. /\ TypeOK /\ pc = "cross" /\ loop.fold = 0 /\ method \in Methods /\ Evaluate(CrossBatch)
      /\ rows \in Seq(Trials)
  BY DEF IInv, CrossValidate, SearchInv, Typed
<1>2. PICK answer \in Answers(CrossBatch) :
        /\ loop'.todo = answer /\ loop'.fold = loop.fold
        /\ pc' = "emit" /\ UNCHANGED <<rows, winners>>
  BY <1>1, EvaluateIs
<1>3. /\ CrossBatch \in Seq(Plans) /\ Len(CrossBatch) = CrossSize /\ CrossSize \in Nat
      /\ DOMAIN CrossBatch = 1..CrossSize
      /\ \A j \in 1..CrossSize : Matches(CrossBatch[j], j)
  BY CrossBatchIs
<1>4. /\ answer \in Seq(Evaluations) /\ Len(answer) = CrossSize
      /\ \A j \in 1..CrossSize :
            /\ answer[j].params = CrossBatch[j].params /\ answer[j].fold = CrossBatch[j].fold
            /\ answer[j].slice = CrossBatch[j].slice
  BY <1>1, <1>3, AnswerIs
<1>5. DOMAIN answer = 1..CrossSize /\ Len(rows) \in Nat
  BY <1>1, <1>4, Places
<1>6. \A j \in 1..CrossSize : Matches(answer[j], j)
  BY <1>3, <1>4, MatchesSame
<1>7. Crossed' = 0 /\ CrossSize' = CrossSize
  <2>1. CrossSize' = CrossSize
    BY <1>2 DEF CrossSize
  <2> QED
    BY <1>2, <1>3, <1>4, <2>1 DEF Crossed
<1>8. \A j \in DOMAIN answer : Matches(answer[j], j)' /\ 0 + j = j
  <2>1. \A j \in DOMAIN answer : Matches(answer[j], j) /\ 0 + j = j
    BY <1>5, <1>6
  <2> QED
    BY <1>2, <2>1 DEF Matches
<1> QED
  BY <1>2, <1>5, <1>7, <1>8 DEF Aligned

\* Recording one of its trials keeps the cross-validation in its order.
LEMMA EmitAligns == ASSUME IInv, SearchInv, Aligned, EmitRow, loop.fold = 0 PROVE Aligned'
<1>1. PICK row : Emitted(row)
  BY EmitIs DEF IInv, SearchInv
<1>2. /\ row = TrialRow(loop.todo[1]) /\ loop.todo[1] \in Evaluations
      /\ row.fold = loop.todo[1].fold /\ row.slice = loop.todo[1].slice
      /\ Len(rows) \in Nat /\ Len(loop.todo) \in Nat \ {0}
      /\ DOMAIN loop.todo = 1..Len(loop.todo)
      /\ Len(rows') = Len(rows) + 1
      /\ \A i \in 1..Len(rows) : rows'[i] = rows[i]
      /\ rows'[Len(rows) + 1] = row
      /\ Len(loop'.todo) = Len(loop.todo) - 1
      /\ DOMAIN loop'.todo = 1..(Len(loop.todo) - 1)
      /\ \A i \in 1..(Len(loop.todo) - 1) : loop'.todo[i] = loop.todo[i + 1]
      /\ loop'.fold = loop.fold /\ UNCHANGED winners /\ pc = "emit" /\ pc' = "emit"
  BY <1>1 DEF Emitted
<1>3. row.params = loop.todo[1].params
  BY <1>2 DEF TrialRow
<1> PICK n : n = Crossed
  OBVIOUS
<1> PICK l : l = Len(rows)
  OBVIOUS
<1> PICK t : t = Len(loop.todo)
  OBVIOUS
<1>4. /\ n \in 0..l
      /\ \A j \in 1..n : Matches(rows[l - n + j], j)
      /\ \A j \in 1..t : Matches(loop.todo[j], n + j)
  BY <1>2 DEF Aligned
<1>5. l \in Nat /\ t \in Nat \ {0}
  BY <1>2
<1>6. CrossSize \in Nat
  BY CrossBatchIs
<1>7. Crossed' = n + 1 /\ CrossSize' = CrossSize
  <2>1. CrossSize' = CrossSize
    BY <1>2 DEF CrossSize
  <2>2. n = CrossSize - t /\ Crossed' = CrossSize - (t - 1)
    BY <1>2, <2>1 DEF Crossed
  <2> QED
    BY <1>5, <1>6, <2>1, <2>2
<1>8. n + 1 \in 0..(l + 1)
  BY <1>4, <1>5
<1>9. ASSUME NEW j \in 1..(n + 1) PROVE Matches(rows'[(l + 1) - (n + 1) + j], j)
  <2>1. CASE j = n + 1
    <3>1. (l + 1) - (n + 1) + j = l + 1 /\ 1 \in 1..t
      BY <1>4, <1>5, <2>1
    <3>2. Matches(loop.todo[1], j)
      BY <1>4, <2>1, <3>1
    <3>3. Matches(row, j)
      BY <1>2, <1>3, <3>2, MatchesSame
    <3> QED
      BY <1>2, <3>1, <3>3
  <2>2. CASE j # n + 1
    <3>1. j \in 1..n /\ (l + 1) - (n + 1) + j = l - n + j /\ l - n + j \in 1..l
      BY <1>4, <1>5, <2>2
    <3> QED
      BY <1>2, <1>4, <3>1
  <2> QED
    BY <2>1, <2>2
<1>10. ASSUME NEW j \in 1..(t - 1) PROVE Matches(loop'.todo[j], (n + 1) + j)
  <2>1. j + 1 \in 1..t /\ n + (j + 1) = (n + 1) + j
    BY <1>4, <1>5
  <2> QED
    BY <1>2, <1>4, <2>1
<1>11. \A j \in 1..Crossed' : Matches(rows[Len(rows) - Crossed + j], j)'
  <2>1. Crossed' = n + 1 /\ Len(rows') = l + 1
    BY <1>2, <1>7
  <2> QED
    BY <1>2, <1>9, <2>1 DEF Matches
<1>12. \A j \in DOMAIN loop'.todo : Matches(loop.todo[j], Crossed + j)'
  BY <1>2, <1>7, <1>10 DEF Matches
<1> QED
  BY <1>2, <1>7, <1>8, <1>11, <1>12 DEF Aligned

\* At its end, the cross-validation is the last of the trials.
LEMMA EndCrossAligns == ASSUME IInv, SearchInv, Aligned, EndCross PROVE Aligned'
<1>1. /\ pc = "emit" /\ loop.fold = 0 /\ loop.todo = << >> /\ pc' = "select"
      /\ UNCHANGED <<rows, winners>>
  BY DEF EndCross, BatchDone
<1>2. Crossed = CrossSize
  <2>1. CrossSize \in Nat
    BY CrossBatchIs
  <2> QED
    BY <1>1, <2>1 DEF Crossed
<1>3. /\ CrossSize \in 0..Len(rows)
      /\ \A j \in 1..CrossSize : Matches(rows[Len(rows) - CrossSize + j], j)
  BY <1>1, <1>2 DEF Aligned
<1>4. CrossSize' = CrossSize
  BY <1>1 DEF CrossSize
<1>5. \A j \in 1..CrossSize : Matches(Recent(CrossSize, j), j)'
  BY <1>1, <1>3, <1>4 DEF Recent, Matches
<1> QED
  BY <1>1, <1>3, <1>4, <1>5 DEF Aligned

\* What the selection and the writes leave alone.
LEMMA AlignedStays ==
    ASSUME Aligned, UNCHANGED <<rows, winners, loop>>,
           pc' = pc \/ (pc \in {"select", "close"} /\ pc' \in {"close", "best"})
    PROVE  Aligned'
<1>1. CrossSize' = CrossSize /\ Crossed' = Crossed
  BY DEF CrossSize, Crossed
<1>2. ASSUME pc' = "emit", loop'.fold = 0 PROVE pc = "emit" /\ loop.fold = 0
  BY <1>2
<1>3. ASSUME pc' = "emit", loop'.fold = 0
      PROVE  /\ Crossed' \in 0..Len(rows')
             /\ \A j \in 1..Crossed' : Matches(rows[Len(rows) - Crossed + j], j)'
             /\ \A j \in DOMAIN loop'.todo : Matches(loop.todo[j], Crossed + j)'
  BY <1>1, <1>2, <1>3 DEF Aligned, Matches
<1>4. ASSUME pc' \in {"select", "close", "best"} PROVE pc \in {"select", "close", "best"}
  BY <1>4
<1>5. ASSUME pc' \in {"select", "close", "best"}
      PROVE  /\ CrossSize' \in 0..Len(rows')
             /\ \A j \in 1..CrossSize' : Matches(Recent(CrossSize, j), j)'
  BY <1>1, <1>4, <1>5 DEF Aligned, Matches, Recent
<1> QED
  BY <1>3, <1>5 DEF Aligned

\* A trial shows that a parameter set was accepted out of sample on a fold.
Shows(r, p, f) == r.slice = "oos" /\ r.fold = f /\ r.params = p /\ r.acc

\* What the cross-validation says of a winner is what its trials say.
LEMMA CrossIs ==
    ASSUME SearchInv, Aligned, pc \in {"select", "close", "best"}
    PROVE  /\ CrossOutcomes \in Seq(Candidates) /\ DOMAIN CrossOutcomes = DOMAIN winners
           /\ \A w \in DOMAIN winners :
                 CrossOutcomes[w].acc =>
                     \A f \in Folds : \E i \in DOMAIN rows : Shows(rows[i], CrossOutcomes[w].params, f)
<1> PICK n : n = Len(winners)
  OBVIOUS
<1> PICK l : l = Len(rows)
  OBVIOUS
<1> PICK m : m = CrossSize
  OBVIOUS
<1>1. /\ n \in Nat /\ DOMAIN winners = 1..n /\ \A w \in 1..n : winners[w] \in Winners
      /\ l \in Nat /\ DOMAIN rows = 1..l /\ \A i \in 1..l : rows[i] \in Trials
  BY Places DEF SearchInv, Typed
<1>2. m \in 0..l /\ \A j \in 1..m : Matches(Recent(m, j), j)
  BY DEF Aligned
<1>3. m = n * NFolds /\ NFolds \in Nat \ {0}
  BY SizesAssumption DEF CrossSize
<1> PICK b \in Nat \ {0} : b = NFolds
  BY <1>3
<1> DEFINE Rs(w) == [f \in Folds |-> Recent(Len(winners) * NFolds, (w - 1) * NFolds + f)]
<1>4. ASSUME NEW w \in 1..n, NEW f \in Folds
      PROVE  \E i \in DOMAIN rows : /\ Rs(w)[f] = rows[i] /\ rows[i] \in Trials
                                    /\ rows[i].slice = "oos" /\ rows[i].fold = f
                                    /\ rows[i].params = winners[w].params
  <2> DEFINE j == (w - 1) * b + f
  <2>1. f \in 1..b /\ b \in Nat
    BY DEF Folds
  <2>2. j \in 1..m
    BY <1>1, <1>3, <2>1, GridPlace
  <2>3. ((j - 1) % b) + 1 = f /\ ((j - 1) \div b) + 1 = w
    <3>1. w \in Nat \ {0}
      BY <1>1
    <3> QED
      BY <2>1, <3>1, GridCell, SMTT(30)
  <2>4. Rs(w)[f] = Recent(m, j)
    BY <1>3
  <2> HIDE DEF j
  <2>5. Matches(Recent(m, j), j)
    BY <1>2, <2>2
  <2> PICK i : i = l - m + j
    OBVIOUS
  <2>6. i \in 1..l /\ Recent(m, j) = rows[i]
    BY <1>1, <1>2, <2>2 DEF Recent
  <2>7. rows[i].slice = "oos" /\ rows[i].fold = f /\ rows[i].params = winners[w].params
    BY <2>3, <2>5, <2>6 DEF Matches
  <2> QED
    BY <1>1, <2>4, <2>6, <2>7
<1> PICK cross : cross = CrossOutcomes
  OBVIOUS
<1>5. /\ DOMAIN cross = 1..n /\ cross = [w \in 1..n |-> cross[w]]
      /\ \A w \in 1..n : cross[w] = Outcome(winners[w].params, Rs(w))
  BY <1>1 DEF CrossOutcomes
<1>6. IsFiniteSet(Folds)
  BY SizesAssumption, Upto DEF Folds
<1>7. ASSUME NEW w \in 1..n
      PROVE  /\ cross[w] \in Candidates /\ cross[w].params = winners[w].params
             /\ cross[w].acc => \A f \in Folds : Rs(w)[f].acc
  <2> PICK rs : rs = Rs(w)
    OBVIOUS
  <2>1. DOMAIN rs = Folds /\ \A f \in Folds : rs[f] \in Trials
    BY <1>4
  <2> DEFINE oos == [i \in Folds |-> rs[i].m]
             all == \A i \in Folds : rs[i].acc
             score == IF all THEN SumOver(Folds, oos) ELSE NegInf
  <2>2. cross[w] = [params |-> winners[w].params, acc |-> all, oos |-> oos, score |-> score]
    BY <1>5, <2>1 DEF Outcome
  <2>3. oos \in [Folds -> Int]
    BY <2>1 DEF Trials
  <2>4. SumOver(Folds, oos) \in Int
    <3>1. \A f \in Folds : oos[f] \in Int
      BY <2>3
    <3> HIDE DEF oos
    <3> QED
      BY <1>6, <3>1, SumType
  <2>5. score \in Int
    BY <2>4, ClampAssumption
  <2>6. winners[w].params \in Params
    BY <1>1 DEF Winners
  <2>7. all \in BOOLEAN
    OBVIOUS
  <2>8. cross[w].params = winners[w].params /\ cross[w].acc = all
    BY <2>2
  <2> HIDE DEF all, oos, score
  <2>9. cross[w] \in Candidates
    BY <2>2, <2>3, <2>5, <2>6, <2>7 DEF Candidates
  <2>10. cross[w].acc => \A f \in Folds : rs[f].acc
    BY <2>8 DEF all
  <2> QED
    BY <2>8, <2>9, <2>10
<1>8. cross \in Seq(Candidates)
  BY <1>1, <1>5, <1>7, Sequence
<1> HIDE DEF Rs
<1>9. ASSUME NEW w \in 1..n, cross[w].acc, NEW f \in Folds
      PROVE  \E i \in DOMAIN rows : Shows(rows[i], cross[w].params, f)
  <2>1. PICK i \in DOMAIN rows : /\ Rs(w)[f] = rows[i] /\ rows[i] \in Trials
                                 /\ rows[i].slice = "oos" /\ rows[i].fold = f
                                 /\ rows[i].params = winners[w].params
    BY <1>4
  <2>2. Rs(w)[f].acc /\ cross[w].params = winners[w].params
    BY <1>7, <1>9
  <2> QED
    BY <2>1, <2>2 DEF Shows
<1> QED
  BY <1>1, <1>5, <1>8, <1>9

-----------------------------------------------------------------------------
(* What is published                                                       *)

\* The decision is a candidate that the cross-validation accepted.
Chosen ==
    pc \in {"close", "best"} /\ decision # << >> =>
        \E w \in DOMAIN winners : decision = << CrossOutcomes[w] >> /\ CrossOutcomes[w].acc

\* Whatever is published of the trials that are on disk, they show it: a run
\* replaces the trials of an earlier one only after that one's candidates.
Filed ==
    /\ best.run \in Int /\ best.run <= run /\ pick.run \in Int /\ pick.run <= run
    /\ pc \notin {"idle", "manifest", "complete"} => best.run < run
    /\ pc # "idle" => pick.run < run
    /\ trials.rows \in Seq(Trials) /\ best.cross \in Seq(Candidates)
    /\ best.run > 0 /\ trials.run = best.run =>
        /\ Shown(best.final)
        /\ \A i \in DOMAIN best.cross : best.cross[i].acc => Shown(<< best.cross[i] >>)
    /\ pick.run > 0 /\ pick.run = pick.trials /\ trials.run = pick.run => Shown(pick.final)

FinalInv == Aligned /\ Chosen /\ Filed

\* What it takes to show a candidate.
LEMMA ShownIs ==
    ASSUME NEW c, \A f \in Folds : \E i \in DOMAIN trials.rows : Shows(trials.rows[i], c.params, f)
    PROVE  Shown(<< c >>)
  BY DEF Shown, Shows

\* No candidate, nothing to show.
LEMMA ShownNothing == Shown(<< >>)
  BY DEF Shown

\* A step that writes neither trials nor candidates.
LEMMA FiledStays ==
    ASSUME Filed, run \in Nat, run' \in Nat, run <= run', UNCHANGED <<best, pick>>,
           trials'.run = trials.run, trials'.rows = trials.rows,
           pc' \notin {"idle", "manifest", "complete"} => best.run < run',
           pc' # "idle" => pick.run < run'
    PROVE  Filed'
<1>1. /\ best.run \in Int /\ best.run <= run' /\ pick.run \in Int /\ pick.run <= run'
      /\ trials.rows \in Seq(Trials) /\ best.cross \in Seq(Candidates)
  BY DEF Filed
<1>2. /\ best.run > 0 /\ trials.run = best.run =>
            /\ Shown(best.final)'
            /\ \A i \in DOMAIN best.cross : best.cross[i].acc => Shown(<< best.cross[i] >>)'
      /\ pick.run > 0 /\ pick.run = pick.trials /\ trials.run = pick.run => Shown(pick.final)'
  BY DEF Filed, Shown
<1> QED
  BY <1>1, <1>2 DEF Filed

\* A step that writes trials of the run.
LEMMA FlushFiles ==
    ASSUME IInv, IInv', SearchInv', Filed, NEW held, Flush(held), UNCHANGED <<run, best, pick>>,
           pc \notin {"idle", "best", "manifest", "complete"},
           pc' \notin {"idle", "best", "manifest", "complete"}
    PROVE  Filed'
<1>1. run \in Nat /\ best.run < run /\ pick.run < run /\ best.run \in Int /\ pick.run \in Int
      /\ best.cross \in Seq(Candidates)
  BY DEF IInv, TypeOK, Filed
<1>2. CASE held = << >>
  <2>1. trials' = trials
    BY <1>2 DEF Flush
  <2> QED
    BY <1>1, <2>1, FiledStays
<1>3. CASE held # << >>
  <2>1. trials' = Written(held) /\ buffer' = << >> /\ writer' = TRUE
    BY <1>3 DEF Flush
  <2>2. trials'.run = run
    BY <2>1 DEF Written
  <2>3. trials'.rows = rows'
    <3>1. trials'.rows \o buffer' = rows' /\ IsSeq(trials'.rows)
      BY <2>1 DEF IInv, NoRowLost, TypeOK
    <3> QED
      BY <2>1, <3>1, EmptyIsSeq, Joined
  <2>4. trials'.rows \in Seq(Trials)
    BY <2>3 DEF SearchInv, Typed
  <2> QED
    BY <1>1, <2>2, <2>4 DEF Filed
<1> QED
  BY <1>2, <1>3

\* The candidates are written beside their trials.
LEMMA WriteBestFiles ==
    ASSUME IInv, SearchInv, FinalInv, WriteBest
    PROVE  Filed'
<1> USE DEF FinalInv
<1>1. /\ pc = "best" /\ pc' = "manifest" /\ UNCHANGED <<run, trials, pick>>
      /\ best' = [run |-> run, cross |-> CrossOutcomes, final |-> decision]
  BY DEF WriteBest
<1>2. run \in Nat /\ trials.run = run /\ trials.rows = rows
  BY <1>1 DEF IInv, TypeOK, NoRowLost
<1>3. /\ CrossOutcomes \in Seq(Candidates) /\ DOMAIN CrossOutcomes = DOMAIN winners
      /\ \A w \in DOMAIN winners :
            CrossOutcomes[w].acc =>
                \A f \in Folds : \E i \in DOMAIN rows : Shows(rows[i], CrossOutcomes[w].params, f)
  BY <1>1, CrossIs
<1> PICK cross : cross = CrossOutcomes
  OBVIOUS
<1>4. \A w \in DOMAIN cross : cross[w].acc => Shown(<< cross[w] >>)
  <2> SUFFICES ASSUME NEW w \in DOMAIN cross, cross[w].acc PROVE Shown(<< cross[w] >>)
    OBVIOUS
  <2> PICK c : c = cross[w]
    OBVIOUS
  <2>1. \A f \in Folds : \E i \in DOMAIN trials.rows : Shows(trials.rows[i], c.params, f)
    BY <1>2, <1>3
  <2>2. Shown(<< c >>)
    BY <2>1, ShownIs
  <2> QED
    BY <2>2
<1>5. Shown(decision)
  <2>1. CASE decision = << >>
    BY <2>1, ShownNothing
  <2>2. CASE decision # << >>
    <3>1. PICK w \in DOMAIN winners : decision = << cross[w] >> /\ cross[w].acc
      BY <1>1, <2>2 DEF Chosen
    <3>2. w \in DOMAIN cross
      BY <1>3
    <3> QED
      BY <1>4, <3>1, <3>2
  <2> QED
    BY <2>1, <2>2
<1>6. best'.run = run /\ best'.cross = cross /\ best'.final = decision
  BY <1>1
<1>7. Shown(best.final)' /\ \A i \in DOMAIN cross : cross[i].acc => Shown(<< best.cross[i] >>)'
  BY <1>1, <1>4, <1>5, <1>6 DEF Shown
<1>8. pick.run < run /\ pick.run \in Int /\ run' = run /\ pick' = pick /\ trials' = trials
      /\ trials.rows \in Seq(Trials)
  BY <1>1 DEF Filed
<1> QED
  BY <1>1, <1>2, <1>3, <1>6, <1>7, <1>8 DEF Filed

\* A reselection publishes what the candidates on disk allow.
LEMMA ReselectFiles == ASSUME IInv, Filed, Reselect PROVE Filed'
<1>1. /\ UNCHANGED <<run, process, trials, best>> /\ pc = "idle" /\ pc' = pc
      /\ best.run > 0
      /\ \E dsr \in Ratios(best.cross), r, force \in BOOLEAN :
            pick' = [run |-> best.run, trials |-> trials.run, nth |-> pick.nth + 1,
                     final |-> RunSelection(StoredCross, StoredHistory, r, dsr, force).pick]
  BY DEF Reselect, Readable, process
<1>2. PICK dsr \in Ratios(best.cross), r \in BOOLEAN, force \in BOOLEAN :
            pick' = [run |-> best.run, trials |-> trials.run, nth |-> pick.nth + 1,
                     final |-> RunSelection(StoredCross, StoredHistory, r, dsr, force).pick]
  BY <1>1
<1> PICK cross : cross = StoredCross
  OBVIOUS
<1> PICK final : final = RunSelection(StoredCross, StoredHistory, r, dsr, force).pick
  OBVIOUS
<1>3. /\ best.run \in Int /\ best.run <= run /\ trials.rows \in Seq(Trials)
      /\ best.cross \in Seq(Candidates)
      /\ best.run > 0 /\ trials.run = best.run =>
            /\ Shown(best.final)
            /\ \A i \in DOMAIN best.cross : best.cross[i].acc => Shown(<< best.cross[i] >>)
  BY DEF Filed
<1>4. /\ cross \in Seq(Candidates) /\ DOMAIN cross = DOMAIN best.cross
      /\ \A i \in DOMAIN best.cross :
            cross[i].params = best.cross[i].params /\ cross[i].acc = best.cross[i].acc
  BY <1>3, ClampedIs DEF StoredCross
<1>5. IsHistory(StoredHistory)
  BY <1>3, HistoryIs DEF StoredHistory
<1>6. \A i \in DOMAIN cross : dsr[cross[i].params] \in Int
  <2> TAKE i \in DOMAIN cross
  <2>1. cross[i].params \in {best.cross[k].params : k \in DOMAIN best.cross}
    BY <1>4
  <2>2. dsr[cross[i].params] \in 0..1
    BY <2>1 DEF Ratios
  <2> QED
    BY <2>2
<1>7. final # << >> => \E i \in DOMAIN cross : final = << cross[i] >> /\ cross[i].acc
  <2> PICK history : history = StoredHistory
    OBVIOUS
  <2>1. final = RunSelection(cross, history, r, dsr, force).pick
    OBVIOUS
  <2>2. cross \in Seq(Candidates) /\ IsHistory(history)
    BY <1>4, <1>5
  <2>3. ASSUME RunSelection(cross, history, r, dsr, force).pick # << >>
        PROVE  \E i \in DOMAIN cross :
                  RunSelection(cross, history, r, dsr, force).pick = << cross[i] >> /\ cross[i].acc
    BY ONLY <1>6, <2>2, <2>3, SelectionIs
  <2> QED
    BY <2>1, <2>3
<1>8. pick'.run = best.run /\ pick'.trials = trials.run /\ pick'.final = final
  BY <1>2
<1>9. ASSUME trials.run = best.run PROVE Shown(final)
  <2>1. CASE final = << >>
    BY <2>1, ShownNothing
  <2>2. CASE final # << >>
    <3>1. PICK i \in DOMAIN cross : final = << cross[i] >> /\ cross[i].acc
      BY <1>7, <2>2
    <3>2. Shown(<< best.cross[i] >>) /\ cross[i].params = best.cross[i].params
      BY <1>1, <1>3, <1>4, <1>9, <3>1
    <3> QED
      BY <3>1, <3>2 DEF Shown
  <2> QED
    BY <2>1, <2>2
<1>10. trials.run = best.run => Shown(final)'
  BY <1>1, <1>9 DEF Shown
<1>11. /\ best.run > 0 /\ trials.run = best.run =>
            /\ Shown(best.final)'
            /\ \A i \in DOMAIN best.cross : best.cross[i].acc => Shown(<< best.cross[i] >>)'
  BY <1>1, <1>3 DEF Shown
<1>12. /\ best'.run \in Int /\ best'.run <= run' /\ pick'.run \in Int /\ pick'.run <= run'
       /\ pc' = "idle" /\ trials'.rows \in Seq(Trials) /\ best'.cross \in Seq(Candidates)
  BY <1>1, <1>3, <1>8
<1>13. best' = best /\ trials' = trials
  BY <1>1
<1>14. pick'.run > 0 /\ pick'.run = pick'.trials /\ trials'.run = pick'.run => Shown(pick.final)'
  BY <1>8, <1>10, <1>13
<1> QED
  BY <1>11, <1>12, <1>13, <1>14 DEF Filed

\* Before the selection there is no decision to speak of.
LEMMA FinalElsewhere ==
    ASSUME pc' \notin {"emit", "select", "close", "best"} \/ (pc' = "emit" /\ loop'.fold # 0)
    PROVE  Aligned' /\ Chosen'
  BY DEF Aligned, Chosen

\* The decision stands as long as nothing is searched.
LEMMA ChosenStays ==
    ASSUME Chosen, UNCHANGED <<rows, winners, decision>>, pc' \in {"close", "best"} => pc \in {"close", "best"}
    PROVE  Chosen'
<1>1. CrossOutcomes' = CrossOutcomes
  BY DEF CrossOutcomes, Recent
<1> QED
  BY <1>1 DEF Chosen

\* The end of a training batch.
LEMMA EndBatchFinal ==
    ASSUME IInv, IInv', SearchInv', FinalInv,
           EndOneShot \/ EndRound \/ EndSeeding \/ EndPolish \/ EndRung
    PROVE  FinalInv'
<1>1. /\ BatchDone /\ Flush(buffer) /\ UNCHANGED <<run, best, pick>>
      /\ \/ \E w : Conclude(w)
         \/ \E trail : NextRound(trail)
         \/ pc' = "cross"
  <2>1. CASE EndOneShot
    BY <2>1 DEF EndOneShot
  <2>2. CASE EndRound
    BY <2>2 DEF EndRound
  <2>3. CASE EndSeeding
    BY <2>3, Zenon DEF EndSeeding
  <2>4. CASE EndPolish
    BY <2>4, Zenon DEF EndPolish
  <2>5. CASE EndRung
    BY <2>5, Zenon DEF EndRung
  <2> QED
    BY <2>1, <2>2, <2>3, <2>4, <2>5
<1>2. pc = "emit" /\ pc' \in {"ask", "cross"}
  BY <1>1, ConcludeIs, NextRoundIs DEF IInv, BatchDone
<1>3. Aligned' /\ Chosen'
  BY <1>2, FinalElsewhere
<1>4. Filed'
  BY <1>1, <1>2, FlushFiles DEF FinalInv
<1> QED
  BY <1>3, <1>4 DEF FinalInv

\* Recording a trial, and the end of the cross-validation.
LEMMA RecordFinal ==
    ASSUME IInv, IInv', SearchInv, SearchInv', FinalInv, EmitRow \/ EndCross
    PROVE  FinalInv'
<1> USE DEF FinalInv
<1>1. CASE EmitRow
  <2>1. /\ pc = "emit" /\ pc' = "emit" /\ UNCHANGED <<run, best, pick>>
        /\ \/ \E held : Flush(held)
           \/ UNCHANGED trials
    BY <1>1, Zenon DEF EmitRow
  <2>2. Filed'
    <3>1. CASE \E held : Flush(held)
      BY <2>1, <3>1, FlushFiles
    <3>2. CASE UNCHANGED trials
      BY <2>1, <3>2, FiledStays DEF Filed, IInv, TypeOK
    <3> QED
      BY <2>1, <3>1, <3>2
  <2>3. Aligned'
    <3>1. CASE loop.fold = 0
      BY <1>1, <3>1, EmitAligns
    <3>2. CASE loop.fold # 0
      <4>1. loop'.fold = loop.fold
        BY <1>1, EmitIs DEF IInv, SearchInv, Emitted
      <4> QED
        BY <2>1, <3>2, <4>1, FinalElsewhere
    <3> QED
      BY <3>1, <3>2
  <2>4. Chosen'
    BY <2>1 DEF Chosen
  <2> QED
    BY <2>2, <2>3, <2>4
<1>2. CASE EndCross
  <2>1. pc = "emit" /\ pc' = "select" /\ Flush(buffer) /\ UNCHANGED <<run, best, pick>>
    BY <1>2 DEF EndCross, BatchDone
  <2>2. Filed'
    BY <2>1, FlushFiles
  <2>3. Aligned'
    BY <1>2, EndCrossAligns
  <2>4. Chosen'
    BY <2>1 DEF Chosen
  <2> QED
    BY <2>2, <2>3, <2>4
<1> QED
  BY <1>1, <1>2

\* A decision is one of the candidates, accepted.
LEMMA SelectChooses == ASSUME IInv, SearchInv, Aligned, Select PROVE Chosen'
<1>1. /\ pc = "select" /\ pc' = "close" /\ UNCHANGED <<rows, winners>>
      /\ \E dsr \in Ratios(CrossOutcomes), force \in BOOLEAN :
            decision' = RunSelection(CrossOutcomes, History(rows), robust, dsr, force).pick
  BY DEF Select
<1>2. PICK dsr \in Ratios(CrossOutcomes), force \in BOOLEAN :
            decision' = RunSelection(CrossOutcomes, History(rows), robust, dsr, force).pick
  BY <1>1
<1> PICK cross : cross = CrossOutcomes
  OBVIOUS
<1> PICK history : history = History(rows)
  OBVIOUS
<1> PICK robustly : robustly = robust
  OBVIOUS
<1>3. cross \in Seq(Candidates) /\ DOMAIN cross = DOMAIN winners
  BY <1>1, CrossIs
<1>4. IsHistory(history)
  BY HistoryIs DEF SearchInv, Typed
<1>5. \A i \in DOMAIN cross : dsr[cross[i].params] \in Int
  <2> TAKE i \in DOMAIN cross
  <2>1. cross[i].params \in {cross[k].params : k \in DOMAIN cross}
    OBVIOUS
  <2>2. dsr[cross[i].params] \in 0..1
    BY <2>1 DEF Ratios
  <2> QED
    BY <2>2
<1>6. decision' = RunSelection(cross, history, robustly, dsr, force).pick
  BY <1>2
<1>7. ASSUME RunSelection(cross, history, robustly, dsr, force).pick # << >>
      PROVE  \E i \in DOMAIN cross :
                RunSelection(cross, history, robustly, dsr, force).pick = << cross[i] >> /\ cross[i].acc
  BY ONLY <1>3, <1>4, <1>5, <1>7, SelectionIs
<1>8. CrossOutcomes' = cross
  BY <1>1 DEF CrossOutcomes, Recent
<1>9. decision' # << >> => \E w \in DOMAIN winners : decision' = << cross[w] >> /\ cross[w].acc
  BY <1>3, <1>6, <1>7
<1> QED
  BY <1>1, <1>8, <1>9 DEF Chosen

\* The selection and the writes.
LEMMA FinishFinal ==
    ASSUME IInv, SearchInv, FinalInv, Select \/ CloseTrials \/ WriteBest \/ WriteManifest
    PROVE  FinalInv'
<1> USE DEF FinalInv
<1>1. CASE Select
  <2>1. pc = "select" /\ pc' = "close" /\ UNCHANGED <<run, rows, winners, loop, best, pick, trials>>
    BY <1>1 DEF Select, disk
  <2>2. Filed'
    BY <2>1, FiledStays DEF Filed, IInv, TypeOK
  <2>3. Aligned'
    BY <2>1, AlignedStays
  <2> QED
    BY <1>1, <2>2, <2>3, SelectChooses
<1>2. CASE CloseTrials
  <2>1. /\ pc = "close" /\ pc' = "best" /\ UNCHANGED <<run, rows, winners, loop, decision, best, pick>>
        /\ trials' = [trials EXCEPT !.footer = TRUE]
    BY <1>2 DEF CloseTrials
  <2>2. trials'.run = trials.run /\ trials'.rows = trials.rows
    BY <2>1 DEF IInv, TypeOK
  <2>3. Filed'
    BY <2>1, <2>2, FiledStays DEF Filed, IInv, TypeOK
  <2>4. Aligned'
    BY <2>1, AlignedStays
  <2>5. Chosen'
    BY <2>1, ChosenStays
  <2> QED
    BY <2>3, <2>4, <2>5
<1>3. CASE WriteBest
  <2>1. pc' = "manifest"
    BY <1>3 DEF WriteBest
  <2> QED
    BY <1>3, <2>1, WriteBestFiles, FinalElsewhere
<1>4. CASE WriteManifest
  <2>1. pc = "manifest" /\ pc' = "complete" /\ UNCHANGED <<run, best, pick, trials>>
    BY <1>4 DEF WriteManifest
  <2>2. Filed'
    BY <2>1, FiledStays DEF Filed, IInv, TypeOK
  <2> QED
    BY <2>1, <2>2, FinalElsewhere
<1> QED
  BY <1>1, <1>2, <1>3, <1>4

\* The beginning of a run, its batches, and its end.
LEMMA OtherFinal ==
    ASSUME IInv, SearchInv, FinalInv,
           Begin \/ Register \/ SearchBatch \/ CrossValidate \/ CompleteIndex \/ Die \/ DieWriting
    PROVE  FinalInv'
<1> USE DEF FinalInv
<1>1. run \in Nat /\ run <= run + 1 /\ run + 1 \in Nat /\ TypeOK
      /\ trials = [run |-> trials.run, rows |-> trials.rows, footer |-> trials.footer]
  BY DEF IInv, TypeOK
<1>2. CASE Begin
  <2>1. pc' = "index" /\ run' = run + 1 /\ UNCHANGED <<best, pick, trials>>
    BY <1>2 DEF Begin
  <2>2. best.run < run' /\ pick.run < run'
    BY <1>1, <2>1 DEF Filed
  <2>3. Filed'
    BY <1>1, <2>1, <2>2, FiledStays
  <2> QED
    BY <2>1, <2>3, FinalElsewhere
<1>3. CASE Register
  <2>1. pc = "index" /\ pc' = "ask" /\ UNCHANGED <<run, best, pick, trials>>
    BY <1>3 DEF Register
  <2>2. Filed'
    BY <1>1, <2>1, FiledStays DEF Filed
  <2> QED
    BY <2>1, <2>2, FinalElsewhere
<1>4. CASE SearchBatch
  <2>1. PICK batch : pc = "ask" /\ Evaluate(batch)
    BY <1>4 DEF SearchBatch
  <2>2. pc' = "emit" /\ loop'.fold = loop.fold /\ UNCHANGED <<run, best, pick, trials>>
    <3>1. loop'.fold = loop.fold /\ pc' = "emit"
      BY <1>1, <2>1, EvaluateIs
    <3> QED
      BY <2>1, <3>1 DEF Evaluate, disk
  <2>3. loop.fold # 0
    BY <2>1 DEF SearchInv, Typed
  <2>4. Filed'
    BY <1>1, <2>1, <2>2, FiledStays DEF Filed
  <2> QED
    BY <2>2, <2>3, <2>4, FinalElsewhere
<1>5. CASE CrossValidate
  <2>1. pc = "cross" /\ pc' = "emit" /\ UNCHANGED <<run, best, pick, trials>>
    BY <1>5 DEF CrossValidate, Evaluate, disk
  <2>2. Filed'
    BY <1>1, <2>1, FiledStays DEF Filed
  <2>3. Chosen'
    BY <2>1 DEF Chosen
  <2> QED
    BY <1>5, <2>2, <2>3, CrossAligns
<1>6. CASE CompleteIndex \/ Die
  <2>1. /\ pc' = "idle" /\ UNCHANGED <<run, best, pick>>
        /\ trials' = trials \/ trials' = [trials EXCEPT !.footer = TRUE]
    BY <1>6 DEF CompleteIndex, Die, Forgotten
  <2>2. trials'.run = trials.run /\ trials'.rows = trials.rows
    BY <1>1, <2>1
  <2>3. Filed'
    BY <1>1, <2>1, <2>2, FiledStays
  <2> QED
    BY <2>1, <2>3, FinalElsewhere
<1>7. CASE DieWriting
  <2>1. /\ pc' = "idle" /\ UNCHANGED <<pick, trials>>
        /\ \/ run' = run + 1 /\ UNCHANGED best
           \/ best' = TornBest /\ UNCHANGED run
           \/ UNCHANGED <<run, best>>
    BY <1>7 DEF DieWriting, Forgotten
  <2>2. CASE UNCHANGED best /\ run' \in {run, run + 1}
    <3>1. Filed'
      BY <1>1, <2>1, <2>2, FiledStays
    <3> QED
      BY <2>1, <3>1, FinalElsewhere
  <2>3. CASE best' = TornBest /\ UNCHANGED run
    <3>1. best'.run = -1 /\ best'.cross = << >>
      BY <2>3 DEF TornBest, NoBest
    <3>2. << >> \in Seq(Candidates)
      OBVIOUS
    <3>3. pick.run > 0 /\ pick.run = pick.trials /\ trials.run = pick.run => Shown(pick.final)'
      BY <2>1 DEF Filed, Shown
    <3>4. Filed'
      BY <1>1, <2>1, <2>3, <3>1, <3>2, <3>3 DEF Filed
    <3> QED
      BY <2>1, <3>4, FinalElsewhere
  <2> QED
    BY <2>1, <2>2, <2>3
<1> QED
  BY <1>2, <1>3, <1>4, <1>5, <1>6, <1>7

\* Every step keeps what is published.
LEMMA FinalNext ==
    ASSUME IInv, IInv', SearchInv, SearchInv', FinalInv, [Next]_vars
    PROVE  FinalInv'
<1>1. CASE EndOneShot \/ EndRound \/ EndSeeding \/ EndPolish \/ EndRung
  BY <1>1, EndBatchFinal
<1>2. CASE EmitRow \/ EndCross
  BY <1>2, RecordFinal
<1>3. CASE Select \/ CloseTrials \/ WriteBest \/ WriteManifest
  BY <1>3, FinishFinal
<1>4. CASE Begin \/ Register \/ SearchBatch \/ CrossValidate \/ CompleteIndex \/ Die \/ DieWriting
  BY <1>4, OtherFinal
<1>5. CASE Reselect
  <2>1. UNCHANGED <<pc, rows, winners, loop, decision>>
    BY <1>5, Zenon DEF Reselect, process
  <2>2. Aligned' /\ Chosen'
    BY <2>1, AlignedStays, ChosenStays DEF FinalInv
  <2> QED
    BY <1>5, <2>2, ReselectFiles DEF FinalInv
<1>6. CASE UNCHANGED vars
  <2>1. UNCHANGED <<pc, rows, winners, loop, decision, run, best, pick, trials>>
    BY <1>6 DEF vars, process, disk
  <2>2. Aligned' /\ Chosen'
    BY <2>1, AlignedStays, ChosenStays DEF FinalInv
  <2>3. Filed'
    BY <2>1, FiledStays DEF FinalInv, Filed, IInv, TypeOK
  <2> QED
    BY <2>2, <2>3 DEF FinalInv
<1> QED
  BY <1>1, <1>2, <1>3, <1>4, <1>5, <1>6 DEF Next, Stopped

\* Nothing is published at first.
LEMMA FinalInit == ASSUME Init PROVE FinalInv
<1>1. /\ pc = "idle" /\ run = 0 /\ trials = NoTrials /\ best = NoBest /\ pick = NoPick
  BY DEF Init
<1>2. Aligned /\ Chosen
  BY <1>1 DEF Aligned, Chosen
<1>3. /\ best.run = 0 /\ best.cross = << >> /\ pick.run = 0 /\ trials.rows = << >>
  BY <1>1 DEF NoTrials, NoBest, NoPick
<1>4. << >> \in Seq(Trials) /\ << >> \in Seq(Candidates)
  OBVIOUS
<1>5. Filed
  BY <1>1, <1>3, <1>4 DEF Filed
<1> QED
  BY <1>2, <1>5 DEF FinalInv

\* The invariant of what is published is inductive, beside the other two.
THEOREM FinalInvariant == Spec => []FinalInv
<1>1. Init => FinalInv
  BY FinalInit
<1>2. IInv /\ IInv' /\ SearchInv /\ SearchInv' /\ FinalInv /\ [Next]_vars => FinalInv'
  BY FinalNext
<1> QED
  BY <1>1, <1>2, SearchInvariant, PTL DEF Spec

\* A published final, by the run or by a reselection over its artifacts, was
\* accepted out of sample on every fold, as the trials on disk show
\* (FinalHeldEverywhere).
THEOREM FinalAlwaysHeld == Spec => []FinalHeldEverywhere
<1>1. FinalInv => FinalHeldEverywhere
  BY DEF FinalInv, Filed, FinalHeldEverywhere
<1> QED
  BY <1>1, FinalInvariant, PTL

-----------------------------------------------------------------------------
(* The windows trials are scored on, and the values that are proposed       *)

\* Values of parameters are multiples of 1/Unit, as in ParamSpace.
CONSTANT Unit

Space == INSTANCE ParamSpace
Tester == INSTANCE TesterRules

\* What division leaves of any integer.
LEMMA Parted ==
    ASSUME NEW n \in Int, NEW d \in Nat \ {0}
    PROVE  /\ n \div d \in Int /\ n % d \in 0..(d - 1)
           /\ n = d * (n \div d) + (n % d)
  OBVIOUS

\* Rounding to the nearest is off by a half at most.
LEMMA Near ==
    ASSUME NEW n \in Int, NEW d \in Nat \ {0}, NEW h, h = Space!HalfEven(n, d)
    PROVE  h \in Int /\ d * h \in Int /\ 2 * n - d <= 2 * (d * h) /\ 2 * (d * h) <= 2 * n + d
<1> DEFINE q == n \div d
           r == n % d
<1>1. q \in Int /\ r \in 0..(d - 1) /\ n = d * q + r
  BY Parted
<1>2. \/ h = q /\ 2 * r <= d
      \/ h = q + 1 /\ 2 * r >= d
  BY <1>1 DEF Space!HalfEven
<1> HIDE DEF q, r
<1>3. d * q \in Int /\ d * (q + 1) = d * q + d
  BY <1>1
<1>4. CASE h = q /\ 2 * r <= d
  BY <1>1, <1>3, <1>4
<1>5. CASE h = q + 1 /\ 2 * r >= d
  BY <1>1, <1>3, <1>5
<1> QED
  BY <1>2, <1>4, <1>5

\* It keeps the order, and what is further apart than a unit stays apart.
LEMMA KeepsOrder ==
    ASSUME NEW m \in Int, NEW n \in Int, NEW d \in Nat \ {0}, m <= n
    PROVE  /\ Space!HalfEven(m, d) <= Space!HalfEven(n, d)
           /\ m + d < n => Space!HalfEven(m, d) < Space!HalfEven(n, d)
<1> PICK a : a = Space!HalfEven(m, d)
  OBVIOUS
<1> PICK b : b = Space!HalfEven(n, d)
  OBVIOUS
<1>1. /\ a \in Int /\ d * a \in Int /\ 2 * m - d <= 2 * (d * a) /\ 2 * (d * a) <= 2 * m + d
      /\ b \in Int /\ d * b \in Int /\ 2 * n - d <= 2 * (d * b) /\ 2 * (d * b) <= 2 * n + d
  BY Near
<1>2. ASSUME b < a PROVE m = n
  <2>1. b + 1 <= a
    BY <1>1, <1>2
  <2>2. d * (b + 1) <= d * a /\ d * (b + 1) = d * b + d
    BY <1>1, <2>1, Times
  <2> QED
    BY <1>1, <2>2
<1>3. ASSUME b <= a PROVE n <= m + d
  <2>1. d * b <= d * a
    BY <1>1, <1>3, Times
  <2> QED
    BY <1>1, <2>1
<1>4. a <= b
  BY <1>1, <1>2
<1>5. m + d < n => a < b
  BY <1>1, <1>3
<1> QED
  BY <1>4, <1>5

\* A multiple is not rounded.
LEMMA Exactly ==
    ASSUME NEW k \in Int, NEW d \in Nat \ {0}
    PROVE  Space!HalfEven(d * k, d) = k
<1> PICK h : h = Space!HalfEven(d * k, d)
  OBVIOUS
<1>1. d * k \in Int
  OBVIOUS
<1>2. h \in Int /\ d * h \in Int /\ 2 * (d * k) - d <= 2 * (d * h) /\ 2 * (d * h) <= 2 * (d * k) + d
  BY <1>1, Near
<1>3. ASSUME h < k PROVE FALSE
  <2>1. d * (h + 1) <= d * k /\ d * (h + 1) = d * h + d
    BY <1>2, <1>3, Times
  <2> QED
    BY <1>1, <1>2, <2>1
<1>4. ASSUME k < h PROVE FALSE
  <2>1. d * (k + 1) <= d * h /\ d * (k + 1) = d * k + d
    BY <1>2, <1>4, Times
  <2> QED
    BY <1>1, <1>2, <2>1
<1> QED
  BY <1>2, <1>3, <1>4

\* No fold is trained on what it is scored on or on anything later, and the
\* windows of the folds follow each other up to the end of the range, for any
\* range, count, scheme and gap (derive_folds).
THEOREM FoldsAlwaysOutOfSample ==
    ASSUME NEW start \in Int, NEW end \in Int, NEW count \in Nat, NEW gap \in Nat, NEW scheme
    PROVE  Space!FoldsAreOutOfSample(start, end, count, scheme, gap)
<1> DEFINE l == end - start
           d == 2 * count
           first(i) == IF scheme = "anchored" THEN 0 ELSE 2 * (i - 1)
<1> PICK at : at = [u \in Int |-> start + Space!HalfEven(l * u, d)]
  OBVIOUS
<1> PICK folds : folds = Space!DeriveFolds(start, end, count, scheme, gap)
  OBVIOUS
<1> SUFFICES ASSUME end > start, count >= 2, gap < count
             PROVE  /\ \A i \in 1..count :
                        /\ folds[i].train.end <= folds[i].oos.start
                        /\ folds[i].oos.start <= folds[i].oos.end
                        /\ gap = 0 /\ end - start >= 2 * count => folds[i].train.start < folds[i].train.end
                    /\ \A i \in 1..count - 1 : folds[i].oos.end <= folds[i + 1].oos.start
                    /\ folds[count].oos.end = end
  BY DEF Space!FoldsAreOutOfSample, Space!IsFolds
<1>1. l \in Nat /\ d \in Nat \ {0}
  OBVIOUS
<1>2. ASSUME NEW i \in 1..count
      PROVE  /\ folds[i].train.start = at[first(i)] /\ folds[i].train.end = at[2 * i - 1 - gap]
             /\ folds[i].oos.start = at[2 * i - 1] /\ folds[i].oos.end = at[2 * i]
  <2>1. first(i) \in Int /\ 2 * i - 1 - gap \in Int /\ 2 * i - 1 \in Int /\ 2 * i \in Int
    OBVIOUS
  <2> QED
    BY <2>1 DEF Space!DeriveFolds
<1>3. ASSUME NEW u \in Int, NEW v \in Int, u <= v
      PROVE  at[u] <= at[v]
  <2> HIDE DEF l, d
  <2>1. l * u \in Int /\ l * v \in Int /\ l * u <= l * v
    BY <1>1, <1>3, Times
  <2>2. Space!HalfEven(l * u, d) <= Space!HalfEven(l * v, d)
    BY <1>1, <2>1, KeepsOrder
  <2>3. Space!HalfEven(l * u, d) \in Int /\ Space!HalfEven(l * v, d) \in Int
    BY <1>1, <2>1, Near
  <2> QED
    BY <2>2, <2>3
<1>4. ASSUME NEW u \in Int, NEW v \in Int, u < v, l >= d
      PROVE  at[u] < at[v]
  <2> HIDE DEF l, d
  <2>1. l * u \in Int /\ l * v \in Int /\ l * (u + 1) <= l * v /\ l * (u + 1) = l * u + l
    BY <1>1, <1>4, Times
  <2>2. Space!HalfEven(l * u, d) \in Int /\ Space!HalfEven(l * v, d) \in Int
    BY <1>1, <2>1, Near
  <2>3. CASE l = d
    <3>1. Space!HalfEven(l * u, d) = u /\ Space!HalfEven(l * v, d) = v
      BY <1>1, <2>3, Exactly
    <3> QED
      BY <1>4, <3>1
  <2>4. CASE l > d
    <3>1. l * u + d < l * v /\ l * u <= l * v
      BY <1>1, <2>1, <2>4
    <3>2. Space!HalfEven(l * u, d) < Space!HalfEven(l * v, d)
      BY <1>1, <2>1, <3>1, KeepsOrder
    <3> QED
      BY <2>2, <3>2
  <2> QED
    BY <1>1, <1>4, <2>3, <2>4
<1>5. at[2 * count] = end
  <2>1. l * d = d * l
    BY <1>1
  <2>2. Space!HalfEven(d * l, d) = l
    BY <1>1, Exactly
  <2> QED
    BY <2>1, <2>2
<1>6. ASSUME NEW i \in 1..count
      PROVE  /\ folds[i].train.end <= folds[i].oos.start
             /\ folds[i].oos.start <= folds[i].oos.end
             /\ gap = 0 /\ end - start >= 2 * count => folds[i].train.start < folds[i].train.end
  <2>1. /\ 2 * i - 1 - gap \in Int /\ 2 * i - 1 \in Int /\ 2 * i \in Int /\ first(i) \in Int
        /\ 2 * i - 1 - gap <= 2 * i - 1 /\ 2 * i - 1 <= 2 * i
        /\ gap = 0 => first(i) < 2 * i - 1 - gap
    OBVIOUS
  <2>2. folds[i].train.end = at[2 * i - 1 - gap] /\ folds[i].oos.start = at[2 * i - 1]
    BY <1>2
  <2>3. folds[i].oos.end = at[2 * i] /\ folds[i].train.start = at[first(i)]
    BY <1>2
  <2> HIDE DEF first
  <2>4. at[2 * i - 1 - gap] <= at[2 * i - 1] /\ at[2 * i - 1] <= at[2 * i]
    BY <1>3, <2>1
  <2>5. gap = 0 /\ end - start >= 2 * count => at[first(i)] < at[2 * i - 1 - gap]
    BY <1>4, <2>1
  <2> QED
    BY <2>2, <2>3, <2>4, <2>5
<1>7. ASSUME NEW i \in 1..count - 1
      PROVE  folds[i].oos.end <= folds[i + 1].oos.start
  <2> PICK j \in 1..count : j = i + 1
    OBVIOUS
  <2>1. 2 * i \in Int /\ 2 * j - 1 \in Int /\ 2 * i <= 2 * j - 1 /\ i \in 1..count
    OBVIOUS
  <2>2. folds[i].oos.end = at[2 * i] /\ folds[j].oos.start = at[2 * j - 1]
    BY <1>2, <2>1
  <2> QED
    BY <1>3, <2>1, <2>2
<1>8. folds[count].oos.end = end
  <2> PICK i \in 1..count : i = count
    OBVIOUS
  <2>1. folds[i].oos.end = at[2 * i]
    BY <1>2
  <2> QED
    BY <1>5, <2>1
<1> QED
  BY <1>6, <1>7, <1>8

\* The slices of a full batch tile the range they are cut from and have a seed
\* each, for any range and any number of folds (walk_forward_slices).
THEOREM SlicesAlwaysTile ==
    ASSUME NEW start \in Int, NEW end \in Int, NEW folds \in Nat \ {0}, start < end
    PROVE  Tester!SlicesTile(start, end, folds)
<1> DEFINE l == end - start
<1> PICK at : at = [i \in Int |-> start + Space!HalfEven(l * i, folds)]
  OBVIOUS
<1> PICK slices : slices = Tester!WalkForwardSlices(start, end, folds)
  OBVIOUS
<1> PICK runs : runs = Tester!FullBatchSpec(slices, << >>, 0)
  OBVIOUS
<1>1. \A n, d : Tester!Rounded(n, d) = Space!HalfEven(n, d)
  BY DEF Tester!Rounded, Space!HalfEven
<1>2. /\ DOMAIN slices = 1..folds
      /\ \A i \in 1..folds : /\ slices[i].start = start + Space!HalfEven(l * (i - 1), folds)
                             /\ slices[i].end = IF i = folds THEN end
                                               ELSE start + Space!HalfEven(l * i, folds)
  BY <1>1 DEF Tester!WalkForwardSlices
<1>3. ASSUME NEW i \in 1..folds
      PROVE  /\ runs[i].slice = slices[i] /\ runs[i].seed = i - 1
             /\ slices[i].start = at[i - 1] /\ slices[i].end = IF i = folds THEN end ELSE at[i]
  <2>1. runs[i].slice = slices[i] /\ runs[i].seed = 0 + i - 1
    BY <1>2 DEF Tester!FullBatchSpec
  <2>2. i \in Int /\ i - 1 \in Int
    OBVIOUS
  <2>3. at[i - 1] = start + Space!HalfEven(l * (i - 1), folds)
        /\ at[i] = start + Space!HalfEven(l * i, folds)
    BY <2>2
  <2>4. /\ slices[i].start = start + Space!HalfEven(l * (i - 1), folds)
        /\ slices[i].end = IF i = folds THEN end ELSE start + Space!HalfEven(l * i, folds)
    BY <1>2
  <2>5. slices[i].start = at[i - 1]
    BY ONLY <2>3, <2>4
  <2>6. slices[i].end = IF i = folds THEN end ELSE at[i]
    BY ONLY <2>3, <2>4
  <2> QED
    BY ONLY <2>1, <2>5, <2>6
<1>4. l \in Nat
  OBVIOUS
<1>5. ASSUME NEW u \in Int, NEW v \in Int, u <= v
      PROVE  at[u] <= at[v]
  <2> HIDE DEF l
  <2>1. l * u \in Int /\ l * v \in Int /\ l * u <= l * v
    BY <1>4, <1>5, Times
  <2>2. Space!HalfEven(l * u, folds) <= Space!HalfEven(l * v, folds)
    BY <2>1, KeepsOrder
  <2>3. Space!HalfEven(l * u, folds) \in Int /\ Space!HalfEven(l * v, folds) \in Int
    BY <2>1, Near
  <2> QED
    BY <2>2, <2>3
<1>6. at[0] = start
  <2>1. l * 0 = folds * 0
    BY <1>4
  <2>2. Space!HalfEven(folds * 0, folds) = 0
    BY Exactly
  <2> QED
    BY <2>1, <2>2
<1>7. at[folds] = end
  <2>1. l * folds = folds * l
    BY <1>4
  <2>2. Space!HalfEven(folds * l, folds) = l
    BY <1>4, Exactly
  <2> QED
    BY <2>1, <2>2
<1>8. ASSUME NEW i \in 1..folds
      PROVE  runs[i].slice.start = at[i - 1] /\ runs[i].slice.end = at[i]
  BY <1>3, <1>7
<1>9. runs[1].slice.start = start
  <2> PICK i \in 1..folds : i = 1
    OBVIOUS
  <2>1. runs[i].slice.start = at[i - 1] /\ i - 1 = 0
    BY <1>8
  <2> QED
    BY <1>6, <2>1
<1>10. runs[folds].slice.end = end
  <2> PICK i \in 1..folds : i = folds
    OBVIOUS
  <2> QED
    BY <1>7, <1>8
<1>11. ASSUME NEW i \in 1..folds - 1 PROVE runs[i].slice.end = runs[i + 1].slice.start
  <2> PICK j \in 1..folds : j = i + 1
    OBVIOUS
  <2>1. i \in 1..folds /\ j - 1 = i
    OBVIOUS
  <2>2. runs[i].slice.end = at[i] /\ runs[j].slice.start = at[j - 1]
    BY <1>8, <2>1
  <2> QED
    BY <2>1, <2>2
<1>12. ASSUME NEW i \in 1..folds PROVE runs[i].slice.start <= runs[i].slice.end
  <2>1. i - 1 \in Int /\ i \in Int /\ i - 1 <= i
    OBVIOUS
  <2>2. at[i - 1] <= at[i]
    BY <1>5, <2>1
  <2>3. runs[i].slice.start = at[i - 1] /\ runs[i].slice.end = at[i]
    BY <1>8
  <2> QED
    BY ONLY <2>2, <2>3
<1>13. Tester!IsInjective([i \in 1..folds |-> runs[i].seed])
  <2> PICK seeds : seeds = [i \in 1..folds |-> runs[i].seed]
    OBVIOUS
  <2>1. DOMAIN seeds = 1..folds /\ \A i \in 1..folds : seeds[i] = runs[i].seed
    OBVIOUS
  <2>2. ASSUME NEW i \in 1..folds PROVE seeds[i] = i - 1
    <3>1. runs[i].seed = i - 1
      BY <1>3
    <3> QED
      BY <2>1, <3>1
  <2>3. Tester!IsInjective(seeds)
    <3> SUFFICES ASSUME NEW a \in DOMAIN seeds, NEW b \in DOMAIN seeds, seeds[a] = seeds[b]
                 PROVE  a = b
      BY DEF Tester!IsInjective
    <3>1. a \in 1..folds /\ b \in 1..folds
      BY <2>1
    <3>2. seeds[a] = a - 1 /\ seeds[b] = b - 1
      BY <2>2, <3>1
    <3> QED
      BY <3>1, <3>2
  <2> QED
    BY <2>3
<1> QED
  BY <1>9, <1>10, <1>11, <1>12, <1>13 DEF Tester!SlicesTile

\* A parameter that the experiment file or a proposal can declare: bounds in
\* order, and at least one choice.
IsParam(p) ==
    \/ \E low, high \in Int : low <= high /\ p \in {Space!Continuous(low, high), Space!Integer(low, high)}
    \/ \E choices : IsSeq(choices) /\ choices # << >> /\ p = Space!Choice(choices)

\* The extremes of two numbers, as ParamSpace takes them.
LEMMA Extremes ==
    ASSUME NEW a \in Int, NEW b \in Int
    PROVE  /\ Space!Min({a, b}) = IF a <= b THEN a ELSE b
           /\ Space!Max({a, b}) = IF a >= b THEN a ELSE b
<1>1. Space!Min({a, b}) = Min({a, b}) /\ Space!Max({a, b}) = Max({a, b})
  BY DEF Space!Min, Min, Space!Max, Max
<1> QED
  BY <1>1, MinMax

\* A clipped value is between the bounds, and one that is there already stays.
LEMMA Clipped ==
    ASSUME NEW v \in Int, NEW low \in Int, NEW high \in Int, low <= high
    PROVE  /\ Space!Clip(v, low, high) \in low..high
           /\ Space!Clip(v, low, high) \in {low, v, high}
<1> PICK m : m = Space!Min({v, high})
  OBVIOUS
<1>1. m = IF v <= high THEN v ELSE high
  BY Extremes
<1>2. m \in Int
  BY <1>1
<1>3. Space!Clip(v, low, high) = Space!Max({low, m})
  BY DEF Space!Clip
<1>4. Space!Max({low, m}) = IF low >= m THEN low ELSE m
  BY <1>2, Extremes
<1> QED
  BY <1>1, <1>3, <1>4

\* A part of the unit interval is the same part of a width.
LEMMA Scaled ==
    ASSUME Unit \in Nat \ {0}, NEW u \in 0..Unit, NEW w \in Nat
    PROVE  (u * w) \div Unit \in 0..w
<1> PICK x : x = u * w
  OBVIOUS
<1>1. x \in Nat /\ x <= Unit * w /\ Unit * w \in Nat
  <2>1. w * u <= w * Unit
    BY Times
  <2>2. w * u = u * w /\ w * Unit = Unit * w /\ u * w \in Nat /\ Unit * w \in Nat
    OBVIOUS
  <2> QED
    BY <2>1, <2>2
<1> PICK q : q = x \div Unit
  OBVIOUS
<1> PICK r : r = x % Unit
  OBVIOUS
<1>2. q \in Nat /\ r \in 0..(Unit - 1) /\ x = Unit * q + r
  BY <1>1, Divided
<1>3. ASSUME w < q PROVE FALSE
  <2>1. Unit * (w + 1) <= Unit * q /\ Unit * (w + 1) = Unit * w + Unit
    BY <1>2, <1>3, Times
  <2>2. Unit * q \in Int
    BY <1>2
  <2> QED
    BY <1>1, <1>2, <2>1, <2>2
<1> QED
  BY <1>2, <1>3

\* The multiples of a unit that an integer parameter is made of.
LEMMA Multiple ==
    ASSUME Unit \in Nat \ {0}, NEW k \in Int
    PROVE  Unit * k \in Int /\ (Unit * k) % Unit = 0 /\ (Unit * k) \div Unit = k
<1> PICK x : x = Unit * k
  OBVIOUS
<1> PICK q : q = x \div Unit
  OBVIOUS
<1> PICK r : r = x % Unit
  OBVIOUS
<1>1. x \in Int
  OBVIOUS
<1>2. q \in Int /\ r \in 0..(Unit - 1) /\ x = Unit * q + r
  BY <1>1, Parted
<1>3. ASSUME q < k PROVE FALSE
  <2>1. Unit * (q + 1) <= Unit * k /\ Unit * (q + 1) = Unit * q + Unit
    BY <1>2, <1>3, Times
  <2>2. Unit * q \in Int
    BY <1>2
  <2> QED
    BY <1>1, <1>2, <2>1, <2>2
<1>4. ASSUME k < q PROVE FALSE
  <2>1. Unit * (k + 1) <= Unit * q /\ Unit * (k + 1) = Unit * k + Unit
    BY <1>2, <1>4, Times
  <2>2. Unit * q \in Int
    BY <1>2
  <2> QED
    BY <1>1, <1>2, <2>1, <2>2
<1>5. q = k
  BY <1>2, <1>3, <1>4
<1> QED
  BY <1>1, <1>2, <1>5

\* Rounding a value between two multiples gives a multiple between them.
LEMMA RoundedBetween ==
    ASSUME Unit \in Nat \ {0}, NEW a \in Int, NEW b \in Int, NEW v \in (Unit * a)..(Unit * b)
    PROVE  \E k \in a..b : Space!Round(v) = Unit * k
<1> PICK k : k = Space!HalfEven(v, Unit)
  OBVIOUS
<1>1. Unit * a \in Int /\ Unit * b \in Int /\ v \in Int
  OBVIOUS
<1>2. k \in Int
  BY <1>1, Near
<1>3. Space!HalfEven(Unit * a, Unit) <= k /\ k <= Space!HalfEven(Unit * b, Unit)
  BY <1>1, KeepsOrder
<1>4. Space!HalfEven(Unit * a, Unit) = a /\ Space!HalfEven(Unit * b, Unit) = b
  BY Exactly
<1>5. Space!Round(v) = Unit * k
  BY DEF Space!Round
<1> QED
  BY <1>2, <1>3, <1>4, <1>5

\* The proposals of a continuous parameter.
LEMMA ContinuousInSpace ==
    ASSUME Unit \in Nat \ {0}, NEW low \in Int, NEW high \in Int, low <= high,
           NEW u \in Int, NEW noise \in Int
    PROVE  Space!ProposalsInSpace(Space!Continuous(low, high), u, noise)
<1> PICK p : p = Space!Continuous(low, high)
  OBVIOUS
<1>1. p.kind = "continuous" /\ p.low = low /\ p.high = high
  BY DEF Space!Continuous
<1> PICK w \in Nat : w = high - low
  OBVIOUS
<1>2. ASSUME NEW v \in low..high PROVE Space!InSpace(v, p)
  BY <1>1 DEF Space!InSpace
<1>3. ASSUME NEW x \in 0..Unit PROVE low + (x * w) \div Unit \in low..high
  <2>1. (x * w) \div Unit \in 0..w
    BY Scaled
  <2> QED
    BY <2>1
<1>4. u \in 0..Unit => Space!InSpace(Space!ProjectUnit(u, p), p)
  <2> SUFFICES ASSUME u \in 0..Unit PROVE Space!InSpace(Space!ProjectUnit(u, p), p)
    OBVIOUS
  <2>1. Space!ProjectUnit(u, p) = low + (u * w) \div Unit
    BY <1>1 DEF Space!ProjectUnit
  <2> QED
    BY <1>2, <1>3, <2>1
<1>5. ASSUME NEW obs \in Space!Samples(p), NEW v \in Space!Parzen(p, obs, noise)
      PROVE  Space!InSpace(v, p)
  <2>1. obs \in low..high /\ v = Space!Clip(obs + noise, low, high)
    BY <1>1 DEF Space!Samples, Space!Parzen
  <2>2. obs + noise \in Int
    BY <2>1
  <2>3. v \in low..high
    BY <2>1, <2>2, Clipped
  <2> QED
    BY <1>2, <2>3
<1>6. ASSUME NEW v PROVE Space!DeProject(v, p) = v
  BY <1>1 DEF Space!DeProject
<1>7. Space!InSpace(Space!CmaProject(u, p, "clip"), p)
  <2> PICK x : x = Space!Clip(u, 0, Unit)
    OBVIOUS
  <2>1. x \in 0..Unit
    BY Clipped
  <2>2. Space!CmaProject(u, p, "clip") = Space!DeProject(low + (x * w) \div Unit, p)
    BY <1>1 DEF Space!CmaProject
  <2> QED
    BY <1>2, <1>3, <1>6, <2>1, <2>2
<1>8. ASSUME NEW v \in low..high PROVE Space!InSpace(Space!DeProject(v, p), p)
  BY <1>2, <1>6
<1> QED
  BY <1>1, <1>4, <1>5, <1>7, <1>8 DEF Space!ProposalsInSpace

\* The proposals of an integer parameter, which are rounded.
LEMMA IntegersInSpace ==
    ASSUME Unit \in Nat \ {0}, NEW a \in Int, NEW b \in Int, a <= b,
           NEW u \in Int, NEW noise \in Int
    PROVE  Space!ProposalsInSpace(Space!Integer(a, b), u, noise)
<1> PICK p : p = Space!Integer(a, b)
  OBVIOUS
<1> PICK low \in Int : low = Unit * a
  OBVIOUS
<1> PICK high \in Int : high = Unit * b
  OBVIOUS
<1>1. p.kind = "int" /\ p.low = low /\ p.high = high
  <2>1. a * Unit = Unit * a /\ b * Unit = Unit * b
    OBVIOUS
  <2> QED
    BY <2>1 DEF Space!Integer
<1>2. low <= high
  BY Times
<1> PICK w \in Nat : w = high - low
  BY <1>2
<1>3. ASSUME NEW k \in a..b PROVE Space!InSpace(Unit * k, p) /\ Unit * k \in low..high
  <2>1. Unit * k \in Int /\ (Unit * k) % Unit = 0
    BY Multiple
  <2>2. Unit * a <= Unit * k /\ Unit * k <= Unit * b
    BY Times
  <2> QED
    BY <1>1, <2>1, <2>2 DEF Space!InSpace
<1>4. ASSUME NEW v \in low..high
      PROVE  Space!InSpace(Space!Round(v), p) /\ Space!Round(v) \in low..high
  <2>1. PICK k \in a..b : Space!Round(v) = Unit * k
    <3>1. v \in (Unit * a)..(Unit * b)
      OBVIOUS
    <3> QED
      BY ONLY <3>1, RoundedBetween, Unit \in Nat \ {0}
  <2> QED
    BY <1>3, <2>1
<1>5. u \in 0..Unit => Space!InSpace(Space!ProjectUnit(u, p), p)
  <2> SUFFICES ASSUME u \in 0..Unit PROVE Space!InSpace(Space!ProjectUnit(u, p), p)
    OBVIOUS
  <2> PICK span : span = b - a + 1
    OBVIOUS
  <2> PICK x : x = (u * span) \div Unit
    OBVIOUS
  <2> PICK m : m = Space!Min({x, span - 1})
    OBVIOUS
  <2>1. (high - low) \div Unit + 1 = span
    <3>1. high - low = Unit * (b - a) /\ b - a \in Int
      OBVIOUS
    <3>2. (Unit * (b - a)) \div Unit = b - a
      BY <3>1, Multiple
    <3> QED
      BY <3>1, <3>2
  <2>2. x \in 0..span
    BY Scaled
  <2>3. m \in 0..(b - a)
    BY <2>2, Extremes
  <2>4. Space!ProjectUnit(u, p) = low + Unit * m
    BY <1>1, <2>1 DEF Space!ProjectUnit
  <2>5. low + Unit * m = Unit * (a + m) /\ a + m \in a..b
    BY <2>3
  <2> QED
    BY <1>3, <2>4, <2>5
<1>6. ASSUME NEW obs \in Space!Samples(p), NEW v \in Space!Parzen(p, obs, noise)
      PROVE  Space!InSpace(v, p)
  <2> PICK x : x = Space!Clip(obs + noise, low, high)
    OBVIOUS
  <2>1. obs \in low..high /\ v = Space!Clip(Space!Round(x), low, high)
    BY <1>1 DEF Space!Samples, Space!Parzen
  <2>2. x \in low..high
    <3>1. obs + noise \in Int
      BY <2>1
    <3> QED
      BY <1>2, <3>1, Clipped
  <2>3. Space!Round(x) \in low..high /\ Space!InSpace(Space!Round(x), p)
    BY <1>4, <2>2
  <2>4. v \in {low, Space!Round(x), high}
    <3> PICK y : y = Space!Round(x)
      OBVIOUS
    <3>1. y \in Int /\ v = Space!Clip(y, low, high)
      BY <2>1, <2>3
    <3>2. Space!Clip(y, low, high) \in {low, y, high}
      BY <1>2, <3>1, Clipped
    <3> QED
      BY <3>1, <3>2
  <2>5. Space!InSpace(low, p) /\ Space!InSpace(high, p)
    BY <1>3
  <2> QED
    BY <2>3, <2>4, <2>5
<1>7. ASSUME NEW v PROVE Space!DeProject(v, p) = Space!Round(v)
  BY <1>1 DEF Space!DeProject
<1>8. Space!InSpace(Space!CmaProject(u, p, "clip"), p)
  <2> PICK x : x = Space!Clip(u, 0, Unit)
    OBVIOUS
  <2>1. x \in 0..Unit
    BY Clipped
  <2>2. Space!CmaProject(u, p, "clip") = Space!DeProject(low + (x * w) \div Unit, p)
    BY <1>1 DEF Space!CmaProject
  <2>3. (x * w) \div Unit \in 0..w
    BY <2>1, Scaled
  <2>4. low + (x * w) \div Unit \in low..high
    BY <2>3
  <2> QED
    BY <1>4, <1>7, <2>2, <2>4
<1>9. ASSUME NEW v \in low..high PROVE Space!InSpace(Space!DeProject(v, p), p)
  BY <1>4, <1>7
<1> QED
  BY <1>1, <1>5, <1>6, <1>8, <1>9 DEF Space!ProposalsInSpace

\* The proposals of a choice.
LEMMA ChoicesInSpace ==
    ASSUME Unit \in Nat \ {0}, NEW choices, IsSeq(choices), choices # << >>,
           NEW u \in Int, NEW noise \in Int
    PROVE  Space!ProposalsInSpace(Space!Choice(choices), u, noise)
<1> PICK p : p = Space!Choice(choices)
  OBVIOUS
<1> PICK n : n = Len(choices)
  OBVIOUS
<1>1. p.kind = "choice" /\ p.choices = choices
  BY DEF Space!Choice
<1>2. DOMAIN choices = 1..n /\ n \in Nat \ {0}
  BY LenProperties, EmptySeq DEF IsSeq
<1>3. ASSUME NEW i \in 1..n PROVE Space!InSpace(choices[i], p)
  BY <1>1, <1>2 DEF Space!InSpace, Space!Range
<1>4. u \in 0..Unit => Space!InSpace(Space!ProjectUnit(u, p), p)
  <2> SUFFICES ASSUME u \in 0..Unit PROVE Space!InSpace(Space!ProjectUnit(u, p), p)
    OBVIOUS
  <2> PICK x : x = (u * n) \div Unit
    OBVIOUS
  <2> PICK m : m = Space!Min({x, n - 1})
    OBVIOUS
  <2>1. x \in 0..n
    BY <1>2, Scaled
  <2>2. 1 + m \in 1..n
    BY <1>2, <2>1, Extremes
  <2>3. Space!ProjectUnit(u, p) = choices[1 + m]
    BY <1>1 DEF Space!ProjectUnit
  <2> QED
    BY <1>3, <2>2, <2>3
<1>5. ASSUME NEW obs \in Space!Samples(p), NEW v \in Space!Parzen(p, obs, noise)
      PROVE  Space!InSpace(v, p)
  BY <1>1 DEF Space!Parzen, Space!InSpace
<1> QED
  BY <1>1, <1>4, <1>5 DEF Space!ProposalsInSpace

\* Whatever proposes a value of a parameter proposes one of the space, for any
\* parameter, point of the unit interval, observation and noise
\* (_project_unit, _sample_parzen, cma_unit_to_params, de_project_individual).
THEOREM ProposalsAlwaysInSpace ==
    ASSUME Unit \in Nat \ {0}, NEW p, IsParam(p), NEW u \in Int, NEW noise \in Int
    PROVE  Space!ProposalsInSpace(p, u, noise)
  BY ContinuousInSpace, IntegersInSpace, ChoicesInSpace DEF IsParam
=============================================================================

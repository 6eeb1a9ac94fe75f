-------------------------- MODULE DataGateway_proofs --------------------------
(***************************************************************************)
(* Proofs about the cache and the replay of recorded runs, for any number  *)
(* of processes, any requests and whatever providers answer.  A process or *)
(* a run that is not stale trusts the file of each blob it has loaded: the *)
(* inductive invariant says that all who trust a file trust the same bars, *)
(* which are those in the file or those that were there before a write     *)
(* that has begun.                                                         *)
(***************************************************************************)
EXTENDS DataGateway, FiniteSetTheorems, NaturalsInduction, WellFoundedInduction, TLAPS

AnyBars == UNION {Published(k.year) : k \in Keys}
Steps == {"idle", "read", "call", "open", "fill", "row", "merge", "got", "backtested"}
AtBlob == {"read", "call", "open", "fill", "row"}
Complete == {"merge", "got", "backtested"}
AnyAsked == Requests \cup {AnyRequest}

Jobs == [step : Steps, request : AnyAsked, mode : CacheModes, run : Nat,
         parts : Seq(AnyBars), fetched : AnyBars \cup {NoBars}, stale : BOOLEAN]
Runs == [request : Requests, parts : Seq(AnyBars), stale : BOOLEAN]

TypeOK ==
    /\ blobs \in [Keys -> {Absent, Torn} \cup {File(b) : b \in AnyBars}]
    /\ rows \subseteq Keys
    /\ job \in [Procs -> Jobs]
    /\ manifests \subseteq Requests
    /\ runs \in Seq(Runs)
    /\ replayed \in [run : Nat, request : AnyAsked, parts : Seq(AnyBars), stale : BOOLEAN]

\* How far the loop over the blobs has come, and what is in hand.
Progress ==
    \A p \in Procs :
        /\ job[p].step # "idle" => job[p].request \in Requests
        /\ job[p].step \in AtBlob => Len(job[p].parts) < Len(KeysOf(job[p].request))
        /\ job[p].step \in Complete => Len(job[p].parts) = Len(KeysOf(job[p].request))
        /\ job[p].step \in {"open", "fill", "row"} => job[p].fetched \in AnyBars

\* A writer that is past its truncation has its file there.
FileBeforeRow == \A p \in Procs : job[p].step \in {"fill", "row"} => blobs[KeyNow(p)] # Absent

\* k is one of the blobs loaded, as the bars b, by a process or for a run.
LoadedAs(request, parts, k, b) ==
    \E i \in 1..Len(parts) : KeysOf(request)[i] = k /\ parts[i] = b
\* Process or run counts on blob k being b.
JobTrusts(j, k, b) ==
    /\ ~j.stale
    /\ \/ LoadedAs(j.request, j.parts, k, b)
       \/ j.step = "row" /\ KeysOf(j.request)[Len(j.parts) + 1] = k /\ j.fetched = b
RunTrusts(run, k, b) == ~run.stale /\ LoadedAs(run.request, run.parts, k, b)
Trusted(k, b) ==
    \/ \E p \in Procs : JobTrusts(job[p], k, b)
    \/ \E n \in DOMAIN runs : RunTrusts(runs[n], k, b)

TrustIsShared == \A k \in Keys : \A b, c \in AnyBars : Trusted(k, b) /\ Trusted(k, c) => b = c
TrustIsOnFile == \A k \in Keys : \A b \in AnyBars : Trusted(k, b) => blobs[k] \in {Torn, File(b)}

\* Every run has its manifest, one for each list of blobs.
Recorded ==
    /\ \A m, n \in manifests : KeysOf(m) = KeysOf(n) => m = n
    /\ \A p \in Procs : job[p].step = "backtested" =>
           \E m \in manifests : KeysOf(m) = KeysOf(job[p].request)
    /\ \A n \in DOMAIN runs :
           /\ Len(runs[n].parts) = Len(KeysOf(runs[n].request))
           /\ \E m \in manifests : KeysOf(m) = KeysOf(runs[n].request)

Matches(n, request, parts) ==
    runs[n].request = request /\ ~runs[n].stale =>
        \A i \in 1..Len(parts) : parts[i] = runs[n].parts[i]

\* A replay in progress has read what its run had.
ReplaysMatch ==
    \A p \in Procs : job[p].step # "idle" /\ job[p].run # 0 =>
        /\ job[p].run \in DOMAIN runs /\ job[p].mode = "offline"
        /\ job[p].step \in {"read", "merge"}
        /\ job[p].request = ManifestOf(runs[job[p].run])
        /\ Matches(job[p].run, job[p].request, job[p].parts)

ReplayedMatches ==
    replayed.run # 0 =>
        /\ replayed.run \in DOMAIN runs
        /\ replayed.request = ManifestOf(runs[replayed.run])
        /\ ~replayed.stale /\ replayed.request = runs[replayed.run].request =>
              replayed.parts = runs[replayed.run].parts

IInv == /\ TypeOK /\ Progress /\ FileBeforeRow /\ RowsFollowBlobs
        /\ TrustIsShared /\ TrustIsOnFile /\ Recorded /\ ReplaysMatch /\ ReplayedMatches
-----------------------------------------------------------------------------
\* The blobs of a request are keys, at least one, and no two are the same: the
\* i-th belongs to the provider (i - 1) \div years and the year (i - 1) % years.
LEMMA KeysOfRequest ==
    ASSUME NEW r \in Requests
    PROVE  /\ KeysOf(r) \in Seq(Keys)
           /\ Len(KeysOf(r)) > 0
           /\ \A i, j \in 1..Len(KeysOf(r)) : KeysOf(r)[i] = KeysOf(r)[j] => i = j
<1> DEFINE Y == YearCount(r)
           L == Len(r.providers)
<1>1. /\ r.providers \in Seq(STRING) /\ L \in Nat \ {0} /\ r.from \in Nat /\ r.until \in Nat
      /\ r.from < r.until
      /\ \A i, j \in DOMAIN r.providers : r.providers[i] = r.providers[j] => i = j
  BY RequestsAssumption
<1>2. \A a, b \in Nat : a <= b => YearOf(a) \in Nat /\ YearOf(a) <= YearOf(b)
  BY PerYearAssumption DEF YearOf
<1>3. Y \in Nat \ {0} /\ FirstYear(r) \in Nat
  <2>1. r.from <= r.until - 1 /\ r.until - 1 \in Nat
    BY <1>1
  <2>2. YearOf(r.from) \in Nat /\ YearOf(r.until - 1) \in Nat /\ YearOf(r.from) <= YearOf(r.until - 1)
    BY <1>1, <1>2, <2>1, SMTT(30)
  <2> QED
    BY <2>2 DEF YearCount, FirstYear
<1> HIDE DEF Y
<1>4. L * Y \in Nat \ {0}
  BY <1>1, <1>3
<1>5. \A i \in 1..(L * Y) : /\ (i - 1) \div Y \in 0..(L - 1) /\ (i - 1) % Y \in 0..(Y - 1)
                            /\ i - 1 = ((i - 1) \div Y) * Y + ((i - 1) % Y)
  <2> SUFFICES ASSUME NEW n \in 0..(L * Y - 1)
               PROVE  n \div Y \in 0..(L - 1) /\ n % Y \in 0..(Y - 1) /\ n = (n \div Y) * Y + (n % Y)
    BY <1>4
  <2> HIDE DEF L
  <2>1. n % Y \in 0..(Y - 1) /\ n = (n \div Y) * Y + (n % Y) /\ n \div Y \in Nat
    BY <1>1, <1>3, <1>4
  <2>2. n \div Y < L
    BY <1>1, <1>3, <1>4, <2>1
  <2> QED
    BY <1>1, <2>1, <2>2
<1>6. /\ DOMAIN KeysOf(r) = 1..(L * Y)
      /\ \A i \in 1..(L * Y) : KeysOf(r)[i] = [provider |-> r.providers[((i - 1) \div Y) + 1],
                                              year |-> FirstYear(r) + ((i - 1) % Y)]
  BY DEF KeysOf, Y
<1>7. KeysOf(r) \in Seq(Keys) /\ Len(KeysOf(r)) = L * Y
  <2>1. \A i \in 1..(L * Y) : KeysOf(r)[i] \in Keys
    <3>1. \A i \in DOMAIN KeysOf(r) : KeysOf(r)[i] \in KeySet(r)
      BY DEF KeySet
    <3> QED
      BY <1>6, <3>1 DEF Keys
  <2>2. KeysOf(r) = [i \in 1..(L * Y) |-> KeysOf(r)[i]]
    BY <1>6 DEF KeysOf
  <2> HIDE DEF L
  <2> QED
    BY <1>4, <2>1, <2>2
<1>8. ASSUME NEW i \in 1..(L * Y), NEW j \in 1..(L * Y), KeysOf(r)[i] = KeysOf(r)[j]
      PROVE  i = j
  <2>1. /\ r.providers[((i - 1) \div Y) + 1] = r.providers[((j - 1) \div Y) + 1]
        /\ FirstYear(r) + ((i - 1) % Y) = FirstYear(r) + ((j - 1) % Y)
    <3>1. KeysOf(r)[i].provider = KeysOf(r)[j].provider /\ KeysOf(r)[i].year = KeysOf(r)[j].year
      BY <1>8
    <3> HIDE DEF L
    <3> QED
      BY <1>6, <3>1
  <2>2. /\ (i - 1) \div Y \in 0..(L - 1) /\ (i - 1) % Y \in 0..(Y - 1)
        /\ (j - 1) \div Y \in 0..(L - 1) /\ (j - 1) % Y \in 0..(Y - 1)
        /\ i - 1 = ((i - 1) \div Y) * Y + ((i - 1) % Y)
        /\ j - 1 = ((j - 1) \div Y) * Y + ((j - 1) % Y)
    <3> HIDE DEF L
    <3> QED
      BY <1>5
  <2>3. (i - 1) % Y = (j - 1) % Y
    <3> DEFINE a == (i - 1) % Y
               b == (j - 1) % Y
    <3>1. a \in Int /\ b \in Int /\ FirstYear(r) + a = FirstYear(r) + b
      BY <1>3, <2>1, <2>2
    <3> HIDE DEF a, b
    <3>2. a = b
      BY <1>3, <3>1
    <3> QED
      BY <3>2 DEF a, b
  <2>4. ((i - 1) \div Y) + 1 = ((j - 1) \div Y) + 1
    <3>1. ((i - 1) \div Y) + 1 \in DOMAIN r.providers /\ ((j - 1) \div Y) + 1 \in DOMAIN r.providers
      BY <1>1, <2>2, SMTT(30)
    <3> QED
      BY <1>1, <2>1, <3>1
  <2>5. (i - 1) \div Y = (j - 1) \div Y
    BY <1>3, <2>2, <2>4, SMTT(30)
  <2>6. i \in Int /\ j \in Int
    BY <1>4
  <2> HIDE DEF L
  <2> QED
    BY <2>2, <2>3, <2>5, <2>6
<1> QED
  BY <1>4, <1>7, <1>8

\* The blob that a process works on is one it has not loaded yet.
LEMMA KeyNowIsNew ==
    ASSUME TypeOK, Progress, NEW p \in Procs, job[p].step \in AtBlob
    PROVE  /\ KeyNow(p) \in Keys
           /\ job[p].request \in Requests
           /\ Len(job[p].parts) + 1 \in 1..Len(KeysOf(job[p].request))
           /\ \A b : ~LoadedAs(job[p].request, job[p].parts, KeyNow(p), b)
<1>1. job[p] \in Jobs /\ job[p].parts \in Seq(AnyBars)
  BY DEF TypeOK, Jobs
<1>2. job[p].request \in Requests /\ Len(job[p].parts) < Len(KeysOf(job[p].request))
  BY DEF Progress, AtBlob
<1>3. Len(job[p].parts) \in Nat /\ Len(KeysOf(job[p].request)) \in Nat
  BY <1>1, <1>2, KeysOfRequest
<1>4. Len(job[p].parts) + 1 \in 1..Len(KeysOf(job[p].request))
  BY <1>2, <1>3
<1>5. KeyNow(p) \in Keys
  BY <1>2, <1>4, KeysOfRequest DEF KeyNow
<1>6. \A i \in 1..Len(job[p].parts) : KeysOf(job[p].request)[i] # KeyNow(p)
  BY <1>2, <1>3, <1>4, KeysOfRequest DEF KeyNow
<1> QED
  BY <1>2, <1>4, <1>5, <1>6 DEF LoadedAs

\* What a step of one process leaves of the others' jobs.
LEMMA MovedJobs ==
    ASSUME TypeOK, NEW p \in Procs, NEW j \in Jobs, Moved(p, j)
    PROVE  /\ job' \in [Procs -> Jobs] /\ job'[p] = j
           /\ \A q \in Procs \ {p} : job'[q] = job[q]
  BY DEF TypeOK, Moved

\* A step that moves p, and lets it trust nothing that was not trusted.
LEMMA MovedTrust ==
    ASSUME TypeOK, NEW p \in Procs, NEW j \in Jobs, Moved(p, j), runs' = runs,
           NEW k, NEW b, Trusted(k, b)'
    PROVE  Trusted(k, b) \/ JobTrusts(j, k, b)
  BY MovedJobs DEF Trusted

\* Trust is kept where no file changes and nobody trusts more than the files.
LEMMA TrustStays ==
    ASSUME TrustIsShared, TrustIsOnFile, blobs' = blobs,
           \A k \in Keys : \A b \in AnyBars : Trusted(k, b)' =>
               Trusted(k, b) \/ blobs[k] = File(b)
    PROVE  TrustIsShared' /\ TrustIsOnFile'
<1>1. \A b, c : File(b) = File(c) => b = c
  BY DEF File
<1>2. \A b : File(b) # Torn
  BY DEF File, Torn
<1> QED
  BY <1>1, <1>2 DEF TrustIsShared, TrustIsOnFile

\* The manifest of a recorded run does not change.
LEMMA ManifestStays ==
    ASSUME Recorded, manifests \subseteq manifests',
           \A m, n \in manifests' : KeysOf(m) = KeysOf(n) => m = n,
           NEW run, \E m \in manifests : KeysOf(m) = KeysOf(run.request)
    PROVE  /\ (CHOOSE m \in manifests' : KeysOf(m) = KeysOf(run.request)) = ManifestOf(run)
           /\ ManifestOf(run) \in manifests /\ KeysOf(ManifestOf(run)) = KeysOf(run.request)
<1>1. ManifestOf(run) \in manifests /\ KeysOf(ManifestOf(run)) = KeysOf(run.request)
  BY DEF ManifestOf
<1> DEFINE M == CHOOSE m \in manifests' : KeysOf(m) = KeysOf(run.request)
<1>2. M \in manifests' /\ KeysOf(M) = KeysOf(run.request)
  BY <1>1
<1> QED
  BY <1>1, <1>2

\* A step of one process that writes nothing: it is enough that its new job is of
\* the right kind and trusts what is trusted already, or what is on file.
LEMMA QuietStep ==
    ASSUME IInv, NEW p \in Procs, NEW j \in Jobs, Moved(p, j),
           UNCHANGED <<config, blobs, rows, manifests, runs, replayed>>,
           j.step # "idle" => j.request \in Requests,
           j.step \in AtBlob => Len(j.parts) < Len(KeysOf(j.request)),
           j.step \in Complete => Len(j.parts) = Len(KeysOf(j.request)),
           j.step \in {"open", "fill", "row"} => j.fetched \in AnyBars,
           j.step \notin {"fill", "row", "backtested"},
           \A k \in Keys : \A b \in AnyBars : JobTrusts(j, k, b) =>
               Trusted(k, b) \/ blobs[k] = File(b),
           j.step # "idle" /\ j.run # 0 =>
               /\ j.run \in DOMAIN runs /\ j.mode = "offline" /\ j.step \in {"read", "merge"}
               /\ j.request = ManifestOf(runs[j.run])
               /\ Matches(j.run, j.request, j.parts)
    PROVE  IInv'
<1> USE DEF IInv
<1>1. /\ job' \in [Procs -> Jobs] /\ job'[p] = j
      /\ \A q \in Procs \ {p} : job'[q] = job[q]
  BY MovedJobs
<1>2. TypeOK'
  BY <1>1 DEF TypeOK
<1>3. Progress'
  BY <1>1 DEF Progress
<1>4. FileBeforeRow' /\ RowsFollowBlobs'
  BY <1>1 DEF FileBeforeRow, RowsFollowBlobs, KeyNow
<1>5. TrustIsShared' /\ TrustIsOnFile'
  BY MovedTrust, TrustStays
<1>6. Recorded'
  BY <1>1 DEF Recorded
<1>7. ReplaysMatch' /\ ReplayedMatches'
  <2>1. \A n : ManifestOf(runs[n])' = ManifestOf(runs[n])
    BY DEF ManifestOf
  <2>2. \A n, request, parts : Matches(n, request, parts)' = Matches(n, request, parts)
    BY DEF Matches
  <2> QED
    BY <1>1, <2>1, <2>2 DEF ReplaysMatch, ReplayedMatches
<1> QED
  BY <1>2, <1>3, <1>4, <1>5, <1>6, <1>7

\* Where the loop goes from a job that has loaded no more than there is to load.
LEMMA LoopFacts ==
    ASSUME NEW j \in Jobs, j.request \in Requests, Len(j.parts) <= Len(KeysOf(j.request))
    PROVE  /\ Loop(j) \in Jobs
           /\ Loop(j).request = j.request /\ Loop(j).parts = j.parts /\ Loop(j).stale = j.stale
           /\ Loop(j).mode = j.mode /\ Loop(j).run = j.run /\ Loop(j).fetched = j.fetched
           /\ Loop(j).step \in {"merge", "call", "read"}
           /\ Loop(j).step = "merge" => Len(j.parts) = Len(KeysOf(j.request))
           /\ Loop(j).step # "merge" => Len(j.parts) < Len(KeysOf(j.request))
           /\ Loop(j).step = "call" => j.mode = "force_refresh"
<1>1. Len(j.parts) \in Nat /\ Len(KeysOf(j.request)) \in Nat
  BY KeysOfRequest DEF Jobs
<1>2. LoopStep(j) \in {"merge", "call", "read"}
  BY DEF LoopStep
<1>3. Loop(j) \in Jobs
  BY <1>2 DEF Loop, Jobs, Steps
<1> QED
  BY <1>1, <1>2, <1>3 DEF Loop, LoopStep, AllLoaded, Jobs

\* A process that begins, or that ends, has loaded nothing.
LEMMA IdleFacts ==
    /\ Idle \in Jobs
    /\ \A k, b : ~JobTrusts(Idle, k, b)
    /\ \A r \in Requests : \A m \in CacheModes : \A n \in Nat :
          LET j == [Idle EXCEPT !.request = r, !.mode = m, !.run = n]
          IN  j \in Jobs /\ j.parts = <<>> /\ j.request = r /\ j.mode = m /\ j.run = n
<1>1. Idle \in Jobs
  BY DEF Idle, Jobs, Steps, AnyAsked, CacheModes
<1>2. \A k, b : ~JobTrusts(Idle, k, b)
  BY DEF Idle, JobTrusts, LoadedAs
<1>3. ASSUME NEW r \in Requests, NEW m \in CacheModes, NEW n \in Nat
      PROVE  LET j == [Idle EXCEPT !.request = r, !.mode = m, !.run = n]
             IN  j \in Jobs /\ j.parts = <<>> /\ j.request = r /\ j.mode = m /\ j.run = n
  BY <1>1 DEF Idle, Jobs, AnyAsked
<1> QED
  BY <1>1, <1>2, <1>3

\* A process that is done.
LEMMA MovedIdle ==
    ASSUME TypeOK, NEW p \in Procs, Moved(p, Idle)
    PROVE  /\ job' \in [Procs -> Jobs] /\ job'[p] = Idle
           /\ \A q \in Procs \ {p} : job'[q] = job[q]
           /\ Idle.step = "idle" /\ \A k, b : ~JobTrusts(Idle, k, b) /\ Idle \in Jobs
<1>1. Idle \in Jobs /\ \A k, b : ~JobTrusts(Idle, k, b)
  BY IdleFacts
<1>2. /\ job' \in [Procs -> Jobs] /\ job'[p] = Idle
      /\ \A q \in Procs \ {p} : job'[q] = job[q]
  BY <1>1, MovedJobs
<1>3. Idle.step = "idle"
  BY DEF Idle
<1> QED
  BY <1>1, <1>2, <1>3

\* The invariant holds of an empty cache.
LEMMA InitInv == ASSUME Init PROVE IInv
<1>1. TypeOK
  <2>1. job \in [Procs -> Jobs]
    BY IdleFacts DEF Init
  <2>2. replayed \in [run : Nat, request : AnyAsked, parts : Seq(AnyBars), stale : BOOLEAN]
    BY DEF Init, NoReplay, AnyAsked
  <2> QED
    BY <2>1, <2>2 DEF Init, TypeOK
<1>2. Progress /\ FileBeforeRow /\ RowsFollowBlobs /\ Recorded /\ ReplaysMatch /\ ReplayedMatches
  BY DEF Init, Progress, FileBeforeRow, RowsFollowBlobs, Recorded, ReplaysMatch, ReplayedMatches,
         Idle, NoReplay, AtBlob, Complete
<1>3. TrustIsShared /\ TrustIsOnFile
  <2>1. \A k, b : ~Trusted(k, b)
    <3>1. DOMAIN runs = {} /\ \A p \in Procs : job[p] = Idle
      BY DEF Init
    <3> QED
      BY <3>1, IdleFacts DEF Trusted
  <2> QED
    BY <2>1 DEF TrustIsShared, TrustIsOnFile
<1> QED
  BY <1>1, <1>2, <1>3 DEF IInv

\* The processes that read, or only compute.
LEMMA ReadingInv ==
    ASSUME IInv, NEW p \in Procs,
           \/ \E r \in Requests, m \in Modes : Fetch(p, r, m)
           \/ \E n \in DOMAIN runs : Replay(p, n)
           \/ ReadBlob(p) \/ CallProvider(p) \/ Merge(p) \/ Crash(p)
    PROVE  IInv'
<1> USE DEF IInv
<1>1. job[p] \in Jobs
  BY DEF TypeOK
<1>2. /\ Idle \in Jobs /\ Idle.step = "idle" /\ \A k, b : ~JobTrusts(Idle, k, b)
  BY IdleFacts DEF Idle
<1>3. ASSUME Moved(p, Idle), UNCHANGED <<config, blobs, rows, manifests, runs, replayed>>
      PROVE  IInv'
  BY <1>2, <1>3, QuietStep DEF AtBlob, Complete
<1>4. ASSUME NEW r \in Requests, NEW m \in Modes, Fetch(p, r, m)
      PROVE  IInv'
  <2> DEFINE i == [Idle EXCEPT !.request = r, !.mode = m]
  <2>1. /\ i \in Jobs /\ i.parts = <<>> /\ i.request = r /\ i.run = 0
    BY <1>2, ModesAssumption DEF Idle, Jobs, AnyAsked
  <2> HIDE DEF i
  <2>2. Len(i.parts) <= Len(KeysOf(i.request))
    BY <2>1, KeysOfRequest
  <2>3. Loop(i).step # "row" /\ \A k, b : ~JobTrusts(Loop(i), k, b)
    BY <2>1, <2>2, LoopFacts DEF JobTrusts, LoadedAs
  <2>4. Moved(p, Loop(i)) /\ UNCHANGED <<config, blobs, rows, manifests, runs, replayed>>
    BY <1>4 DEF Fetch, i
  <2> QED
    BY <2>1, <2>2, <2>3, <2>4, LoopFacts, QuietStep DEF AtBlob, Complete
<1>5. ASSUME NEW n \in DOMAIN runs, Replay(p, n)
      PROVE  IInv'
  <2> DEFINE r == ManifestOf(runs[n])
             i == [Idle EXCEPT !.request = r, !.run = n]
  <2>1. r \in Requests
    BY ManifestStays DEF TypeOK, Recorded, ManifestOf
  <2>2. n \in Nat \ {0}
    BY DEF TypeOK
  <2> HIDE DEF r
  <2>3. /\ i \in Jobs /\ i.parts = <<>> /\ i.request = r /\ i.run = n /\ i.mode = "offline"
    BY <1>2, <2>1, <2>2 DEF Idle, Jobs, AnyAsked
  <2>4. Moved(p, Loop(i)) /\ UNCHANGED <<config, blobs, rows, manifests, runs, replayed>>
    BY <1>5 DEF Replay, r
  <2> HIDE DEF i
  <2>5. Len(i.parts) <= Len(KeysOf(i.request))
    BY <2>1, <2>3, KeysOfRequest
  <2>6. /\ Loop(i).step \in {"read", "merge"} /\ \A k, b : ~JobTrusts(Loop(i), k, b)
        /\ Matches(n, r, Loop(i).parts)
    BY <2>1, <2>3, <2>5, LoopFacts DEF JobTrusts, LoadedAs, Matches
  <2>7. Loop(i).request = ManifestOf(runs[Loop(i).run]) /\ Loop(i).run \in DOMAIN runs
    BY <2>1, <2>3, <2>5, LoopFacts DEF r
  <2> QED
    BY <2>1, <2>3, <2>4, <2>5, <2>6, <2>7, LoopFacts, QuietStep DEF AtBlob, Complete
<1>6. ASSUME ReadBlob(p)
      PROVE  IInv'
  <2> DEFINE k == KeyNow(p)
             N == Len(job[p].parts) + 1
  <2>1. job[p].step = "read" /\ UNCHANGED <<config, blobs, rows, manifests, runs, replayed>>
    BY <1>6 DEF ReadBlob
  <2>2. /\ k \in Keys /\ job[p].request \in Requests /\ N \in 1..Len(KeysOf(job[p].request))
        /\ \A b : ~LoadedAs(job[p].request, job[p].parts, k, b)
    BY <2>1, KeyNowIsNew DEF AtBlob
  <2>3. CASE blobs[k].state = "whole"
    <3> DEFINE b == blobs[k].bars
               i == [job[p] EXCEPT !.parts = Append(@, b)]
    <3>1. blobs[k] = File(b) /\ b \in AnyBars
      BY <2>2, <2>3 DEF TypeOK, File, Absent, Torn
    <3>2. Moved(p, Loop(i))
      BY <1>6, <2>3 DEF ReadBlob
    <3> HIDE DEF b
    <3>3. /\ i \in Jobs /\ i.parts \in Seq(AnyBars) /\ i.request = job[p].request
          /\ i.run = job[p].run /\ i.mode = job[p].mode /\ i.stale = job[p].stale
          /\ i.parts = Append(job[p].parts, b) /\ Len(i.parts) = N
      <4>1. job[p].parts \in Seq(AnyBars)
        BY <1>1 DEF Jobs
      <4>2. Append(job[p].parts, b) \in Seq(AnyBars) /\ Len(Append(job[p].parts, b)) = N
        BY <3>1, <4>1
      <4> QED
        BY <1>1, <4>2 DEF Jobs, i
    <3>4. Len(i.parts) <= Len(KeysOf(i.request))
      BY <2>2, <3>3
    <3>5. ASSUME NEW l \in Keys, NEW c \in AnyBars, JobTrusts(Loop(i), l, c)
          PROVE  Trusted(l, c) \/ blobs[l] = File(c)
      <4>1. ~job[p].stale /\ LoadedAs(job[p].request, i.parts, l, c)
        BY <3>3, <3>4, <3>5, LoopFacts, <2>2 DEF JobTrusts
      <4>2. PICK x \in 1..N : KeysOf(job[p].request)[x] = l /\ i.parts[x] = c
        BY <3>3, <4>1 DEF LoadedAs
      <4>3. CASE x = N
        BY <1>1, <3>1, <3>3, <4>2, <4>3 DEF Jobs, KeyNow
      <4>4. CASE x # N
        <5>1. x \in 1..Len(job[p].parts) /\ job[p].parts[x] = c
          BY <1>1, <3>3, <4>2, <4>4 DEF Jobs
        <5> QED
          BY <4>1, <4>2, <5>1 DEF Trusted, JobTrusts, LoadedAs
      <4> QED
        BY <4>3, <4>4
    <3>6. ASSUME job[p].run # 0
          PROVE  /\ Loop(i).run \in DOMAIN runs /\ Loop(i).mode = "offline"
                 /\ Loop(i).step \in {"read", "merge"}
                 /\ Loop(i).request = ManifestOf(runs[Loop(i).run])
                 /\ Matches(Loop(i).run, Loop(i).request, Loop(i).parts)
      <4> DEFINE n == job[p].run
      <4>1. /\ n \in DOMAIN runs /\ job[p].mode = "offline"
            /\ job[p].request = ManifestOf(runs[n]) /\ Matches(n, job[p].request, job[p].parts)
        BY <2>1, <3>6 DEF ReplaysMatch
      <4>2. Len(runs[n].parts) = Len(KeysOf(runs[n].request)) /\ runs[n] \in Runs
        BY <4>1 DEF Recorded, TypeOK
      <4>3. ASSUME runs[n].request = job[p].request, ~runs[n].stale
            PROVE  b = runs[n].parts[N]
        <5>1. N \in 1..Len(runs[n].parts) /\ runs[n].parts[N] \in AnyBars
          BY <2>2, <4>2, <4>3 DEF Runs
        <5>2. Trusted(k, runs[n].parts[N])
          BY <4>1, <4>3, <5>1 DEF Trusted, RunTrusts, LoadedAs, KeyNow
        <5> QED
          BY <2>2, <3>1, <5>1, <5>2 DEF TrustIsOnFile, File, Torn
      <4>4. Matches(n, job[p].request, i.parts)
        BY <1>1, <3>3, <4>1, <4>3 DEF Matches, Jobs
      <4> QED
        BY <2>2, <3>3, <3>4, <4>1, <4>4, LoopFacts
    <3>7. /\ Loop(i) \in Jobs /\ Loop(i).request \in Requests
          /\ Loop(i).step \in {"merge", "call", "read"}
          /\ Loop(i).step \in AtBlob => Len(Loop(i).parts) < Len(KeysOf(Loop(i).request))
          /\ Loop(i).step \in Complete => Len(Loop(i).parts) = Len(KeysOf(Loop(i).request))
      BY <2>2, <3>3, <3>4, LoopFacts DEF AtBlob, Complete
    <3>8. Loop(i).run = job[p].run
      BY <2>2, <3>3, <3>4, LoopFacts
    <3> QED
      BY <2>1, <3>2, <3>5, <3>6, <3>7, <3>8, QuietStep
  <2>4. CASE blobs[k].state # "whole" /\ ~Moved(p, Idle)
    <3> DEFINE i == [job[p] EXCEPT !.step = "call"]
    <3>1. Moved(p, i) /\ job[p].mode # "offline"
      <4>1. blobs[k].state \in {"torn", "absent"}
        BY <2>2, <2>4 DEF TypeOK, File, Absent, Torn
      <4>2. blobs[k].state = "absent"
        BY <1>6, <2>4, <4>1 DEF ReadBlob
      <4> QED
        BY <1>6, <2>4, <4>2 DEF ReadBlob
    <3>2. /\ i \in Jobs /\ i.parts = job[p].parts /\ i.request = job[p].request /\ i.step = "call"
          /\ i.run = job[p].run /\ i.stale = job[p].stale
      BY <1>1 DEF Jobs, Steps
    <3> HIDE DEF i
    <3>3. i.run = 0
      BY <2>1, <3>1, <3>2 DEF ReplaysMatch
    <3>4. \A l, c : JobTrusts(i, l, c) => Trusted(l, c)
      BY <2>1, <3>2 DEF JobTrusts, Trusted
    <3> QED
      BY <2>1, <2>2, <3>1, <3>2, <3>3, <3>4, QuietStep DEF AtBlob, Complete, Progress
  <2> QED
    BY <1>3, <2>1, <2>3, <2>4
<1>7. ASSUME CallProvider(p)
      PROVE  IInv'
  <2>1. job[p].step = "call" /\ UNCHANGED <<config, blobs, rows, manifests, runs, replayed>>
    BY <1>7 DEF CallProvider
  <2>2. KeyNow(p) \in Keys /\ job[p].request \in Requests
    BY <2>1, KeyNowIsNew DEF AtBlob
  <2>3. CASE ~Moved(p, Idle)
    <3>1. PICK b \in Published(KeyNow(p).year) :
             Moved(p, [job[p] EXCEPT !.step = "open", !.fetched = b])
      BY <1>7, <2>3 DEF CallProvider
    <3> DEFINE i == [job[p] EXCEPT !.step = "open", !.fetched = b]
    <3>2. b \in AnyBars
      BY <2>2, <3>1 DEF AnyBars
    <3>3. /\ i \in Jobs /\ i.parts = job[p].parts /\ i.request = job[p].request /\ i.step = "open"
          /\ i.run = job[p].run /\ i.stale = job[p].stale /\ i.fetched = b
      BY <1>1, <3>2 DEF Jobs, Steps
    <3> HIDE DEF i
    <3>4. i.run = 0
      BY <2>1, <3>3 DEF ReplaysMatch
    <3>5. \A l, c : JobTrusts(i, l, c) => Trusted(l, c)
      BY <2>1, <3>3 DEF JobTrusts, Trusted
    <3>6. Moved(p, i)
      BY <3>1 DEF i
    <3> QED
      BY <2>1, <2>2, <3>2, <3>3, <3>4, <3>5, <3>6, QuietStep DEF AtBlob, Complete, Progress
  <2> QED
    BY <1>3, <2>1, <2>3
<1>8. ASSUME Merge(p)
      PROVE  IInv'
  <2>1. /\ job[p].step = "merge" /\ job[p].run = 0
        /\ UNCHANGED <<config, blobs, rows, manifests, runs, replayed>>
    BY <1>8 DEF Merge
  <2>2. CASE ~Moved(p, Idle)
    <3> DEFINE i == [job[p] EXCEPT !.step = "got"]
    <3>1. Moved(p, i)
      BY <1>8, <2>2 DEF Merge
    <3>2. /\ i \in Jobs /\ i.parts = job[p].parts /\ i.request = job[p].request /\ i.step = "got"
          /\ i.run = job[p].run /\ i.stale = job[p].stale
      BY <1>1 DEF Jobs, Steps
    <3> HIDE DEF i
    <3>3. \A l, c : JobTrusts(i, l, c) => Trusted(l, c)
      BY <2>1, <3>2 DEF JobTrusts, Trusted
    <3> QED
      BY <2>1, <3>1, <3>2, <3>3, QuietStep DEF AtBlob, Complete, Progress
  <2> QED
    BY <1>3, <2>1, <2>2
<1>9. ASSUME Crash(p)
      PROVE  IInv'
  BY <1>3, <1>9 DEF Crash
<1> QED
  BY <1>4, <1>5, <1>6, <1>7, <1>8, <1>9

\* A step of p that changes file k: jobs and runs keep what they are, and of them
\* all only p may trust k afterwards.
LEMMA TouchedFacts ==
    ASSUME TypeOK, NEW p \in Procs, NEW k \in Keys, NEW j \in Jobs, Touched(p, k, j)
    PROVE  /\ job' \in [Procs -> Jobs] /\ job'[p] = j
           /\ \A q \in Procs \ {p} : /\ job'[q] = [job[q] EXCEPT !.stale = job'[q].stale]
                                     /\ ~job'[q].stale => ~job[q].stale /\ k \notin Loaded(q)
           /\ runs' \in Seq(Runs) /\ DOMAIN runs' = DOMAIN runs
           /\ \A n \in DOMAIN runs :
                 /\ runs'[n].request = runs[n].request /\ runs'[n].parts = runs[n].parts
                 /\ ~runs'[n].stale => ~runs[n].stale /\ k \notin KeySet(runs[n].request)
<1>1. /\ job' = [q \in Procs |-> IF q = p THEN j
                                 ELSE [job[q] EXCEPT !.stale = @ \/ k \in Loaded(q)]]
      /\ runs' = [n \in DOMAIN runs |->
                      [runs[n] EXCEPT !.stale = @ \/ k \in KeySet(runs[n].request)]]
  BY DEF Touched
<1>2. /\ \A q \in Procs : job[q] \in Jobs
      /\ runs \in Seq(Runs) /\ \A n \in DOMAIN runs : runs[n] \in Runs
  BY DEF TypeOK
<1>3. ASSUME NEW q \in Procs \ {p}
      PROVE  /\ job'[q] \in Jobs /\ job'[q] = [job[q] EXCEPT !.stale = job'[q].stale]
             /\ ~job'[q].stale => ~job[q].stale /\ k \notin Loaded(q)
  <2>1. job'[q] = [job[q] EXCEPT !.stale = (job[q].stale \/ k \in Loaded(q))]
    BY <1>1
  <2>2. (job[q].stale \/ k \in Loaded(q)) \in BOOLEAN
    OBVIOUS
  <2> QED
    BY <1>2, <2>1, <2>2 DEF Jobs
<1>4. ASSUME NEW n \in DOMAIN runs
      PROVE  /\ runs'[n] \in Runs
             /\ runs'[n].request = runs[n].request /\ runs'[n].parts = runs[n].parts
             /\ ~runs'[n].stale => ~runs[n].stale /\ k \notin KeySet(runs[n].request)
  <2>1. runs'[n] = [runs[n] EXCEPT !.stale = (runs[n].stale \/ k \in KeySet(runs[n].request))]
    BY <1>1
  <2>2. (runs[n].stale \/ k \in KeySet(runs[n].request)) \in BOOLEAN
    OBVIOUS
  <2> QED
    BY <1>2, <2>1, <2>2 DEF Runs
<1>5. DOMAIN runs' = DOMAIN runs /\ runs' \in Seq(Runs)
  <2>1. DOMAIN runs = 1..Len(runs) /\ Len(runs) \in Nat
    BY <1>2
  <2>2. runs' = [n \in 1..Len(runs) |-> runs'[n]]
    BY <1>1, <2>1
  <2> QED
    BY <1>4, <2>1, <2>2
<1>6. job' \in [Procs -> Jobs] /\ job'[p] = j
  BY <1>1, <1>3
<1> QED
  BY <1>3, <1>4, <1>5, <1>6

\* Whatever is trusted after a write to one key's blob was trusted before, or is the job's own.
LEMMA TouchedTrust ==
    ASSUME TypeOK, Recorded, NEW p \in Procs, NEW k \in Keys, NEW j \in Jobs, Touched(p, k, j),
           NEW l, NEW b, Trusted(l, b)'
    PROVE  JobTrusts(j, l, b) \/ (l # k /\ Trusted(l, b))
<1>1. CASE \E q \in Procs \ {p} : JobTrusts(job'[q], l, b)
  <2>1. PICK q \in Procs \ {p} : JobTrusts(job'[q], l, b)
    BY <1>1
  <2>2. ~job[q].stale /\ k \notin Loaded(q)
    BY <2>1, TouchedFacts DEF JobTrusts
  <2>3. JobTrusts(job[q], l, b)
    <3>1. job[q] \in Jobs /\ job'[q] = [job[q] EXCEPT !.stale = job'[q].stale]
      BY TouchedFacts DEF TypeOK
    <3>2. /\ job'[q].request = job[q].request /\ job'[q].parts = job[q].parts
          /\ job'[q].step = job[q].step /\ job'[q].fetched = job[q].fetched
      BY <3>1 DEF Jobs
    <3> QED
      BY <2>1, <2>2, <3>2 DEF JobTrusts
  <2>4. l \in Loaded(q)
    BY <2>3 DEF JobTrusts, LoadedAs, Loaded, KeyNow
  <2> QED
    BY <2>2, <2>3, <2>4 DEF Trusted
<1>2. CASE \E n \in DOMAIN runs : RunTrusts(runs'[n], l, b)
  <2>1. PICK n \in DOMAIN runs : RunTrusts(runs'[n], l, b)
    BY <1>2
  <2>2. /\ ~runs[n].stale /\ k \notin KeySet(runs[n].request)
        /\ LoadedAs(runs[n].request, runs[n].parts, l, b)
    BY <2>1, TouchedFacts DEF RunTrusts
  <2>3. /\ Len(runs[n].parts) = Len(KeysOf(runs[n].request))
        /\ KeysOf(runs[n].request) \in Seq(Keys)
    BY KeysOfRequest DEF Recorded, TypeOK, Runs
  <2>4. l \in KeySet(runs[n].request)
    BY <2>2, <2>3 DEF LoadedAs, KeySet
  <2> QED
    BY <2>2, <2>4 DEF Trusted, RunTrusts
<1> QED
  BY <1>1, <1>2, TouchedFacts DEF Trusted

\* A step of a writer on its file.
LEMMA WritingStep ==
    ASSUME IInv, NEW p \in Procs, job[p].step \in {"open", "fill"}, NEW s \in {"fill", "row"},
           Touched(p, KeyNow(p), [job[p] EXCEPT !.step = s]),
           NEW file \in {Torn, File(job[p].fetched)},
           blobs' = [blobs EXCEPT ![KeyNow(p)] = file],
           s = "fill" => file = Torn,
           UNCHANGED <<config, rows, manifests, replayed>>
    PROVE  IInv'
<1> USE DEF IInv
<1> DEFINE k == KeyNow(p)
           j == [job[p] EXCEPT !.step = s]
<1>1. /\ k \in Keys /\ job[p].request \in Requests /\ job[p].fetched \in AnyBars
      /\ \A b : ~LoadedAs(job[p].request, job[p].parts, k, b)
  BY KeyNowIsNew DEF AtBlob, Progress
<1>2. /\ j \in Jobs /\ j.step = s /\ j.request = job[p].request /\ j.parts = job[p].parts
      /\ j.fetched = job[p].fetched /\ j.stale = job[p].stale /\ j.run = job[p].run
      /\ job[p].run = 0
  <2>1. job[p] \in Jobs /\ job[p].run = 0
    BY DEF TypeOK, ReplaysMatch
  <2> QED
    BY <2>1 DEF Jobs, Steps
<1>3. Touched(p, k, j)
  OBVIOUS
<1> HIDE DEF j
<1>4. /\ job' \in [Procs -> Jobs] /\ job'[p] = j
      /\ \A q \in Procs \ {p} : /\ job'[q].step = job[q].step /\ job'[q].request = job[q].request
                                /\ job'[q].parts = job[q].parts /\ job'[q].fetched = job[q].fetched
                                /\ job'[q].run = job[q].run /\ job'[q].mode = job[q].mode
  <2>1. /\ job' \in [Procs -> Jobs] /\ job'[p] = j
        /\ \A q \in Procs \ {p} : job'[q] = [job[q] EXCEPT !.stale = job'[q].stale]
    <3>1. TypeOK /\ k \in Keys /\ j \in Jobs
      BY <1>1, <1>2
    <3> HIDE DEF k
    <3> QED
      BY <1>3, <3>1, TouchedFacts
  <2>2. \A q \in Procs : job[q] \in Jobs
    BY DEF TypeOK
  <2>3. ASSUME NEW a \in Jobs, NEW st
        PROVE  LET c == [a EXCEPT !.stale = st]
               IN  /\ c.step = a.step /\ c.request = a.request /\ c.parts = a.parts
                   /\ c.fetched = a.fetched /\ c.run = a.run /\ c.mode = a.mode
    BY DEF Jobs
  <2>4. ASSUME NEW q \in Procs \ {p}
        PROVE  /\ job'[q].step = job[q].step /\ job'[q].request = job[q].request
               /\ job'[q].parts = job[q].parts /\ job'[q].fetched = job[q].fetched
               /\ job'[q].run = job[q].run /\ job'[q].mode = job[q].mode
    <3>1. PICK st : st = job'[q].stale
      OBVIOUS
    <3>2. job[q] \in Jobs /\ job'[q] = [job[q] EXCEPT !.stale = st]
      BY <2>1, <2>2, <3>1
    <3> QED
      BY <2>3, <3>2
  <2> QED
    BY <2>1, <2>4
<1>5. /\ runs' \in Seq(Runs) /\ DOMAIN runs' = DOMAIN runs
      /\ \A n \in DOMAIN runs : /\ runs'[n].request = runs[n].request /\ runs'[n].parts = runs[n].parts
                                /\ ~runs'[n].stale => ~runs[n].stale
  BY <1>1, <1>2, <1>3, TouchedFacts
<1>6. TypeOK'
  <2>1. blobs' \in [Keys -> {Absent, Torn} \cup {File(b) : b \in AnyBars}]
    BY <1>1 DEF TypeOK
  <2> QED
    BY <1>4, <1>5, <2>1 DEF TypeOK
<1>7. Progress'
  <2>1. ASSUME NEW q \in Procs
        PROVE  /\ job'[q].step # "idle" => job'[q].request \in Requests
               /\ job'[q].step \in AtBlob => Len(job'[q].parts) < Len(KeysOf(job'[q].request))
               /\ job'[q].step \in Complete => Len(job'[q].parts) = Len(KeysOf(job'[q].request))
               /\ job'[q].step \in {"open", "fill", "row"} => job'[q].fetched \in AnyBars
    BY <1>1, <1>2, <1>4 DEF Progress, AtBlob, Complete
  <2> QED
    BY <2>1 DEF Progress
<1>8. FileBeforeRow' /\ RowsFollowBlobs'
  <2>1. file # Absent
    BY DEF File, Torn, Absent
  <2>2. \A q \in Procs : KeyNow(q)' = KeyNow(q)
    BY <1>2, <1>4 DEF KeyNow
  <2>3. \A q \in Procs : job[q].step \in {"fill", "row"} => KeyNow(q) \in Keys
    BY KeyNowIsNew DEF AtBlob
  <2>4. FileBeforeRow'
    BY <1>1, <1>2, <1>4, <2>1, <2>2, <2>3 DEF FileBeforeRow, TypeOK
  <2>5. RowsFollowBlobs'
    BY <1>1, <2>1 DEF RowsFollowBlobs, TypeOK
  <2> QED
    BY <2>4, <2>5
<1>9. ASSUME NEW l \in Keys, NEW b \in AnyBars, Trusted(l, b)'
      PROVE  \/ l # k /\ Trusted(l, b)
             \/ l = k /\ b = job[p].fetched /\ file \in {Torn, File(b)}
  <2>1. JobTrusts(j, l, b) \/ (l # k /\ Trusted(l, b))
    BY <1>1, <1>2, <1>3, <1>9, TouchedTrust
  <2>2. CASE JobTrusts(j, l, b) /\ LoadedAs(j.request, j.parts, l, b)
    BY <1>1, <1>2, <2>2 DEF JobTrusts, Trusted
  <2>3. CASE JobTrusts(j, l, b) /\ ~LoadedAs(j.request, j.parts, l, b)
    BY <1>2, <2>3 DEF JobTrusts, KeyNow
  <2> QED
    BY <2>1, <2>2, <2>3
<1>10. TrustIsShared' /\ TrustIsOnFile'
  <2>1. TrustIsShared'
    BY <1>9 DEF TrustIsShared
  <2>2. TrustIsOnFile'
    BY <1>1, <1>9 DEF TrustIsOnFile, TypeOK
  <2> QED
    BY <2>1, <2>2
<1>11. Recorded'
  BY <1>2, <1>4, <1>5 DEF Recorded
<1>12. ReplaysMatch' /\ ReplayedMatches'
  <2>1. \A n \in DOMAIN runs : ManifestOf(runs[n])' = ManifestOf(runs[n])
    BY <1>5 DEF ManifestOf
  <2>2. \A n \in DOMAIN runs : \A request, parts : Matches(n, request, parts) => Matches(n, request, parts)'
    BY <1>5 DEF Matches
  <2>3. ReplaysMatch'
    BY <1>2, <1>4, <1>5, <2>1, <2>2 DEF ReplaysMatch
  <2>4. ReplayedMatches'
    BY <1>5, <2>1 DEF ReplayedMatches
  <2> QED
    BY <2>3, <2>4
<1> QED
  BY <1>6, <1>7, <1>8, <1>10, <1>11, <1>12

\* Opening and filling a blob keep the invariant.
LEMMA WritingInv ==
    ASSUME IInv, NEW p \in Procs, OpenBlob(p) \/ FillBlob(p)
    PROVE  IInv'
<1>1. CASE OpenBlob(p)
  BY <1>1, WritingStep DEF OpenBlob
<1>2. CASE FillBlob(p)
  <2>1. PICK file \in {Torn, File(job[p].fetched)} : blobs' = [blobs EXCEPT ![KeyNow(p)] = file]
    BY <1>2 DEF FillBlob
  <2> QED
    BY <1>2, <2>1, WritingStep DEF FillBlob
<1> QED
  BY <1>1, <1>2

\* Recording a provenance row keeps the invariant.
LEMMA RecordRowInv ==
    ASSUME IInv, NEW p \in Procs, RecordRow(p)
    PROVE  IInv'
<1> USE DEF IInv
<1> DEFINE k == KeyNow(p)
           b == job[p].fetched
           N == Len(job[p].parts) + 1
           i == [job[p] EXCEPT !.parts = Append(@, b), !.fetched = NoBars]
<1>1. /\ job[p].step = "row" /\ rows' = rows \union {k} /\ Moved(p, Loop(i))
      /\ UNCHANGED <<config, blobs, manifests, runs, replayed>>
  BY DEF RecordRow
<1>2. /\ k \in Keys /\ job[p].request \in Requests /\ b \in AnyBars
      /\ N \in 1..Len(KeysOf(job[p].request)) /\ blobs[k] # Absent
  BY <1>1, KeyNowIsNew DEF AtBlob, Progress, FileBeforeRow
<1>3. job[p] \in Jobs /\ job[p].run = 0 /\ job[p].parts \in Seq(AnyBars)
  BY <1>1 DEF TypeOK, Jobs, ReplaysMatch
<1>4. /\ i \in Jobs /\ i.request = job[p].request /\ i.run = 0 /\ i.stale = job[p].stale
      /\ i.parts = Append(job[p].parts, b) /\ Len(i.parts) = N
  <2>1. Append(job[p].parts, b) \in Seq(AnyBars) /\ Len(Append(job[p].parts, b)) = N
    BY <1>2, <1>3
  <2> QED
    BY <1>3, <2>1 DEF Jobs
<1> HIDE DEF i
<1>5. /\ Loop(i) \in Jobs /\ Loop(i).request = job[p].request /\ Loop(i).run = 0
      /\ Loop(i).parts = i.parts /\ Loop(i).stale = job[p].stale
      /\ Loop(i).step \in {"merge", "call", "read"}
      /\ Loop(i).step \in AtBlob => N < Len(KeysOf(job[p].request))
      /\ Loop(i).step \in Complete => N = Len(KeysOf(job[p].request))
  BY <1>2, <1>4, LoopFacts DEF AtBlob, Complete
<1>6. /\ job' \in [Procs -> Jobs] /\ job'[p] = Loop(i)
      /\ \A q \in Procs \ {p} : job'[q] = job[q]
  BY <1>1, <1>5, MovedJobs
<1>7. TypeOK'
  BY <1>1, <1>2, <1>6 DEF TypeOK
<1>8. Progress'
  BY <1>2, <1>4, <1>5, <1>6 DEF Progress
<1>9. FileBeforeRow' /\ RowsFollowBlobs'
  BY <1>1, <1>2, <1>5, <1>6 DEF FileBeforeRow, RowsFollowBlobs, KeyNow
<1>10. ASSUME NEW l \in Keys, NEW c \in AnyBars, JobTrusts(Loop(i), l, c)
       PROVE  Trusted(l, c)
  <2>1. ~job[p].stale /\ LoadedAs(job[p].request, i.parts, l, c)
    BY <1>5, <1>10 DEF JobTrusts
  <2>2. PICK x \in 1..N : KeysOf(job[p].request)[x] = l /\ i.parts[x] = c
    BY <1>4, <2>1 DEF LoadedAs
  <2>3. CASE x = N
    BY <1>1, <1>3, <1>4, <2>1, <2>2, <2>3 DEF Trusted, JobTrusts, KeyNow
  <2>4. CASE x # N
    <3>1. x \in 1..Len(job[p].parts) /\ job[p].parts[x] = c
      BY <1>3, <1>4, <2>2, <2>4
    <3> QED
      BY <2>1, <2>2, <3>1 DEF Trusted, JobTrusts, LoadedAs
  <2> QED
    BY <2>3, <2>4
<1>11. TrustIsShared' /\ TrustIsOnFile'
  BY <1>1, <1>5, <1>10, MovedTrust, TrustStays
<1>12. Recorded'
  BY <1>1, <1>5, <1>6 DEF Recorded
<1>13. ReplaysMatch' /\ ReplayedMatches'
  <2>1. \A n : ManifestOf(runs[n])' = ManifestOf(runs[n])
    BY <1>1 DEF ManifestOf
  <2>2. \A n, request, parts : Matches(n, request, parts)' = Matches(n, request, parts)
    BY <1>1 DEF Matches
  <2> QED
    BY <1>1, <1>5, <1>6, <2>1, <2>2 DEF ReplaysMatch, ReplayedMatches
<1> QED
  BY <1>7, <1>8, <1>9, <1>11, <1>12, <1>13

\* Recording a manifest keeps the invariant.
LEMMA RecordManifestInv ==
    ASSUME IInv, NEW p \in Procs, RecordManifest(p)
    PROVE  IInv'
<1> USE DEF IInv
<1> DEFINE i == [job[p] EXCEPT !.step = "backtested"]
<1>1. /\ job[p].step = "got" /\ Moved(p, i)
      /\ manifests' = IF \E m \in manifests : KeysOf(m) = KeysOf(job[p].request) THEN manifests
                      ELSE manifests \union {job[p].request}
      /\ UNCHANGED <<config, blobs, rows, runs, replayed>>
  BY DEF RecordManifest
<1>2. job[p] \in Jobs /\ job[p].request \in Requests /\ job[p].run = 0
  BY <1>1 DEF TypeOK, Progress, ReplaysMatch
<1>3. /\ i \in Jobs /\ i.step = "backtested" /\ i.request = job[p].request /\ i.run = 0
      /\ i.parts = job[p].parts /\ i.stale = job[p].stale
  BY <1>2 DEF Jobs, Steps
<1> HIDE DEF i
<1>4. /\ job' \in [Procs -> Jobs] /\ job'[p] = i
      /\ \A q \in Procs \ {p} : job'[q] = job[q]
  BY <1>1, <1>3, MovedJobs
<1>5. /\ manifests \subseteq manifests' /\ manifests' \subseteq Requests
      /\ \E m \in manifests' : KeysOf(m) = KeysOf(job[p].request)
      /\ \A m, n \in manifests' : KeysOf(m) = KeysOf(n) => m = n
  BY <1>1, <1>2 DEF Recorded, TypeOK
<1>6. TypeOK' /\ Progress'
  BY <1>1, <1>2, <1>3, <1>4, <1>5 DEF TypeOK, Progress, AtBlob, Complete
<1>7. FileBeforeRow' /\ RowsFollowBlobs'
  BY <1>1, <1>3, <1>4 DEF FileBeforeRow, RowsFollowBlobs, KeyNow
<1>8. TrustIsShared' /\ TrustIsOnFile'
  <2>1. \A k, b : JobTrusts(i, k, b) => Trusted(k, b)
    BY <1>1, <1>3 DEF JobTrusts, Trusted
  <2> QED
    BY <1>1, <1>3, <2>1, MovedTrust, TrustStays
<1>9. Recorded'
  <2>1. \A q \in Procs : job'[q].step = "backtested" =>
            \E m \in manifests' : KeysOf(m) = KeysOf(job'[q].request)
    BY <1>3, <1>4, <1>5 DEF Recorded
  <2> QED
    BY <1>1, <1>5, <2>1 DEF Recorded
<1>10. ReplaysMatch' /\ ReplayedMatches'
  <2>1. \A n \in DOMAIN runs : ManifestOf(runs[n])' = ManifestOf(runs[n])
    <3> SUFFICES ASSUME NEW n \in DOMAIN runs PROVE ManifestOf(runs[n])' = ManifestOf(runs[n])
      OBVIOUS
    <3>1. \E m \in manifests : KeysOf(m) = KeysOf(runs[n].request)
      BY DEF Recorded
    <3> QED
      BY <1>1, <1>5, <3>1, ManifestStays DEF ManifestOf
  <2>2. \A n, request, parts : Matches(n, request, parts)' = Matches(n, request, parts)
    BY <1>1 DEF Matches
  <2> QED
    BY <1>1, <1>3, <1>4, <2>1, <2>2 DEF ReplaysMatch, ReplayedMatches
<1> QED
  BY <1>6, <1>7, <1>8, <1>9, <1>10

\* Recording a run keeps the invariant.
LEMMA RecordRunInv ==
    ASSUME IInv, NEW p \in Procs, RecordRun(p)
    PROVE  IInv'
<1> USE DEF IInv
<1> DEFINE run == [request |-> job[p].request, parts |-> job[p].parts, stale |-> job[p].stale]
<1>1. /\ job[p].step = "backtested" /\ runs' = Append(runs, run) /\ Moved(p, Idle)
      /\ UNCHANGED <<config, blobs, rows, manifests, replayed>>
  BY DEF RecordRun
<1>2. /\ job[p] \in Jobs /\ job[p].request \in Requests
      /\ Len(job[p].parts) = Len(KeysOf(job[p].request))
      /\ \E m \in manifests : KeysOf(m) = KeysOf(job[p].request)
  BY <1>1 DEF TypeOK, Progress, Recorded, Complete
<1>3. /\ run \in Runs /\ run.request = job[p].request /\ run.parts = job[p].parts
      /\ run.stale = job[p].stale
  BY <1>2 DEF Jobs, Runs
<1> HIDE DEF run
<1>4. /\ runs \in Seq(Runs) /\ runs' \in Seq(Runs) /\ Len(runs) \in Nat
      /\ DOMAIN runs' = DOMAIN runs \cup {Len(runs) + 1} /\ 0 \notin DOMAIN runs
      /\ runs'[Len(runs) + 1] = run /\ \A n \in DOMAIN runs : runs'[n] = runs[n]
  BY <1>1, <1>3 DEF TypeOK
<1>5. /\ job' \in [Procs -> Jobs] /\ job'[p] = Idle
      /\ \A q \in Procs \ {p} : job'[q] = job[q]
      /\ Idle.step = "idle" /\ \A k, b : ~JobTrusts(Idle, k, b)
  BY <1>1, MovedIdle
<1>6. TypeOK' /\ Progress'
  BY <1>1, <1>4, <1>5 DEF TypeOK, Progress, AtBlob, Complete
<1>7. FileBeforeRow' /\ RowsFollowBlobs'
  BY <1>1, <1>5 DEF FileBeforeRow, RowsFollowBlobs, KeyNow
<1>8. TrustIsShared' /\ TrustIsOnFile'
  <2>1. \A k, b : RunTrusts(run, k, b) => Trusted(k, b)
    BY <1>3 DEF RunTrusts, JobTrusts, Trusted
  <2>2. \A k, b : Trusted(k, b)' => Trusted(k, b)
    <3> SUFFICES ASSUME NEW k, NEW b, Trusted(k, b)' PROVE Trusted(k, b)
      OBVIOUS
    <3>1. CASE \E q \in Procs : JobTrusts(job'[q], k, b)
      BY <1>5, <3>1 DEF Trusted
    <3>2. CASE \E n \in DOMAIN runs' : RunTrusts(runs'[n], k, b)
      BY <1>4, <2>1, <3>2 DEF Trusted
    <3> QED
      BY <3>1, <3>2 DEF Trusted
  <2> QED
    BY <1>1, <2>2, TrustStays
<1>9. Recorded'
  <2>1. \A q \in Procs : job'[q].step = "backtested" =>
            \E m \in manifests' : KeysOf(m) = KeysOf(job'[q].request)
    BY <1>1, <1>5 DEF Recorded
  <2>2. \A n \in DOMAIN runs' : /\ Len(runs'[n].parts) = Len(KeysOf(runs'[n].request))
                                /\ \E m \in manifests' : KeysOf(m) = KeysOf(runs'[n].request)
    BY <1>1, <1>2, <1>3, <1>4 DEF Recorded
  <2> QED
    BY <1>1, <2>1, <2>2 DEF Recorded
<1>10. ReplaysMatch' /\ ReplayedMatches'
  <2>1. \A n \in DOMAIN runs : n \in DOMAIN runs' /\ ManifestOf(runs[n])' = ManifestOf(runs[n])
    BY <1>1, <1>4 DEF ManifestOf
  <2>2. \A n \in DOMAIN runs : \A request, parts : Matches(n, request, parts)' = Matches(n, request, parts)
    BY <1>4 DEF Matches
  <2>3. ReplaysMatch'
    BY <1>4, <1>5, <2>1, <2>2 DEF ReplaysMatch
  <2>4. ReplayedMatches'
    BY <1>1, <1>4, <2>1 DEF ReplayedMatches
  <2> QED
    BY <2>3, <2>4
<1> QED
  BY <1>6, <1>7, <1>8, <1>9, <1>10

\* The end of a replay keeps the invariant.
LEMMA FinishReplayInv ==
    ASSUME IInv, NEW p \in Procs, FinishReplay(p)
    PROVE  IInv'
<1> USE DEF IInv
<1> DEFINE n == job[p].run
           r == job[p].request
           end == [run |-> n, request |-> r, parts |-> job[p].parts, stale |-> runs[n].stale]
<1>1. /\ job[p].step = "merge" /\ n # 0 /\ Moved(p, Idle) /\ replayed' \in {replayed, end}
      /\ UNCHANGED <<config, blobs, rows, manifests, runs>>
  BY DEF FinishReplay
<1>2. /\ n \in DOMAIN runs /\ r = ManifestOf(runs[n]) /\ Matches(n, r, job[p].parts)
      /\ Len(job[p].parts) = Len(KeysOf(r))
  BY <1>1 DEF ReplaysMatch, Progress, Complete
<1>3. /\ job[p] \in Jobs /\ runs[n] \in Runs
      /\ Len(runs[n].parts) = Len(KeysOf(runs[n].request))
  BY <1>2 DEF TypeOK, Recorded
<1>4. /\ job' \in [Procs -> Jobs] /\ job'[p] = Idle
      /\ \A q \in Procs \ {p} : job'[q] = job[q]
      /\ Idle.step = "idle" /\ \A k, b : ~JobTrusts(Idle, k, b) /\ Idle \in Jobs
  BY <1>1, MovedIdle
<1>5. end \in [run : Nat, request : AnyAsked, parts : Seq(AnyBars), stale : BOOLEAN]
  BY <1>3 DEF Jobs, Runs
<1>6. TypeOK' /\ Progress'
  BY <1>1, <1>4, <1>5 DEF TypeOK, Progress, AtBlob, Complete
<1>7. FileBeforeRow' /\ RowsFollowBlobs'
  BY <1>1, <1>4 DEF FileBeforeRow, RowsFollowBlobs, KeyNow
<1>8. TrustIsShared' /\ TrustIsOnFile'
  BY <1>1, <1>4, MovedTrust, TrustStays
<1>9. Recorded'
  BY <1>1, <1>4 DEF Recorded
<1>10. ASSUME ~runs[n].stale, r = runs[n].request
       PROVE  job[p].parts = runs[n].parts
  <2>1. /\ job[p].parts \in Seq(AnyBars) /\ runs[n].parts \in Seq(AnyBars)
        /\ Len(job[p].parts) = Len(runs[n].parts)
    BY <1>2, <1>3, <1>10 DEF Jobs, Runs
  <2>2. \A i \in 1..Len(job[p].parts) : job[p].parts[i] = runs[n].parts[i]
    BY <1>2, <1>10 DEF Matches
  <2> QED
    BY <2>1, <2>2, SMTT(30)
<1>11. ReplaysMatch' /\ ReplayedMatches'
  <2>1. \A m : ManifestOf(runs[m])' = ManifestOf(runs[m])
    BY <1>1 DEF ManifestOf
  <2>2. \A m, request, parts : Matches(m, request, parts)' = Matches(m, request, parts)
    BY <1>1 DEF Matches
  <2>3. ReplaysMatch'
    BY <1>1, <1>4, <2>1, <2>2 DEF ReplaysMatch
  <2>4. CASE replayed' = replayed
    BY <1>1, <2>1, <2>3, <2>4 DEF ReplayedMatches
  <2>5. CASE replayed' = end
    BY <1>1, <1>2, <1>10, <2>1, <2>3, <2>5 DEF ReplayedMatches
  <2> QED
    BY <1>1, <2>4, <2>5
<1> QED
  BY <1>6, <1>7, <1>8, <1>9, <1>11

\* Every step, and every stutter, keeps the invariant.
LEMMA NextInv == ASSUME IInv, [Next]_vars PROVE IInv'
<1>1. CASE Next
  BY <1>1, ReadingInv, WritingInv, RecordRowInv, RecordManifestInv, RecordRunInv, FinishReplayInv
     DEF Next
<1>2. CASE UNCHANGED vars
  BY <1>2 DEF vars, IInv, TypeOK, Progress, FileBeforeRow, RowsFollowBlobs, TrustIsShared,
     TrustIsOnFile, Trusted, Recorded, ReplaysMatch, ReplayedMatches, Matches, ManifestOf, KeyNow
<1> QED
  BY <1>1, <1>2

\* All who count on a blob count on the same bars, those in its file.
THEOREM InductiveInvariant == Spec => []IInv
  BY InitInv, NextInv, PTL DEF Spec

\* A row of manifest.sqlite always has its file (RowsFollowBlobs).
THEOREM RowsAlwaysFollowBlobs == Spec => []RowsFollowBlobs
  BY InductiveInvariant, PTL DEF IInv

\* Runs of one request agree, and a replay gives what its run was computed from,
\* until a file of theirs is written again (RunsReproduce).
THEOREM RunsAlwaysReproduce == Spec => []RunsReproduce
<1>1. IInv => RunsReproduce
  <2> SUFFICES ASSUME IInv PROVE RunsReproduce
    OBVIOUS
  <2> USE DEF IInv
  <2>1. ASSUME NEW m \in DOMAIN runs, NEW n \in DOMAIN runs, runs[m].request = runs[n].request,
               ~runs[m].stale, ~runs[n].stale
        PROVE  runs[m].parts = runs[n].parts
    <3>1. /\ runs[m] \in Runs /\ runs[n] \in Runs
          /\ Len(runs[m].parts) = Len(KeysOf(runs[m].request))
          /\ Len(runs[n].parts) = Len(KeysOf(runs[m].request))
      BY <2>1 DEF TypeOK, Recorded
    <3>2. ASSUME NEW i \in 1..Len(KeysOf(runs[m].request))
          PROVE  runs[m].parts[i] = runs[n].parts[i]
      <4> DEFINE k == KeysOf(runs[m].request)[i]
      <4>1. k \in Keys /\ runs[m].parts[i] \in AnyBars /\ runs[n].parts[i] \in AnyBars
        BY <3>1, KeysOfRequest DEF Runs
      <4>2. Trusted(k, runs[m].parts[i]) /\ Trusted(k, runs[n].parts[i])
        BY <2>1, <3>1 DEF Trusted, RunTrusts, LoadedAs
      <4> QED
        BY <4>1, <4>2 DEF TrustIsShared
    <3> QED
      BY <3>1, <3>2 DEF Runs
  <2>2. ASSUME replayed.run # 0, ~replayed.stale,
               ManifestOf(runs[replayed.run]) = runs[replayed.run].request
        PROVE  Dataset(replayed.request, replayed.parts)
                   = Dataset(runs[replayed.run].request, runs[replayed.run].parts)
    BY <2>2 DEF ReplayedMatches
  <2> QED
    BY <2>1, <2>2 DEF RunsReproduce
<1> QED
  BY <1>1, InductiveInvariant, PTL

-----------------------------------------------------------------------------
(* What a consolidated dataset says                                        *)

\* What a fetch has merged was not refused, under the configuration it was merged.
Merged ==
    /\ config \in [precedence : Precedences, on_disagree : Policies]
    /\ \A p \in Procs : job[p].step = "got" => ~MergeFails(job[p].request, job[p].parts)

\* A set of naturals that is not empty has a least element.
LEMMA LeastExists ==
    ASSUME NEW N \in SUBSET Nat, N # {}
    PROVE  \E n \in N : \A k \in N : n <= k
<1>1. PICK n \in N : \A k \in N : ~(<<k, n>> \in OpToRel(<, Nat))
  BY NatLessThanWellFounded, WFMin
<1>2. \A k \in N : ~(k < n)
  BY <1>1 DEF OpToRel
<1> QED
  BY <1>2

\* Where positions are sorted by close, those with equal closes in their order, there
\* is one at every place: by counting, since no two are at the same place.
LEMMA PlaceTaken ==
    ASSUME NEW H \in SUBSET Nat, IsFiniteSet(H), NEW c \in [H -> Int],
           NEW n \in 0..(Cardinality(H) - 1)
    PROVE  \E j \in H : Cardinality({i \in H : c[i] < c[j] \/ (c[i] = c[j] /\ i < j)}) = n
<1> DEFINE Before(i, j) == c[i] < c[j] \/ (c[i] = c[j] /\ i < j)
           Ahead(j) == {i \in H : Before(i, j)}
           m == Cardinality(H)
           place == [j \in H |-> Cardinality(Ahead(j))]
<1>1. \A i, j \in H : c[i] \in Int /\ i \in Int /\ (i # j => Before(i, j) \/ Before(j, i))
  OBVIOUS
<1>2. \A i, j, k \in H : Before(i, j) /\ Before(j, k) => Before(i, k)
  BY <1>1
<1>3. \A i \in H : ~Before(i, i)
  BY <1>1
<1> HIDE DEF Before
<1>4. \A j \in H : Ahead(j) \in SUBSET H /\ j \notin Ahead(j)
  BY <1>3
<1>5. \A j \in H : IsFiniteSet(Ahead(j)) /\ Cardinality(Ahead(j)) \in Nat
  BY <1>4, FS_Subset, FS_CardinalityType
<1>6. m \in Nat
  BY FS_CardinalityType
<1>7. \A i, j \in H : Before(i, j) => place[i] < place[j]
  <2> SUFFICES ASSUME NEW i \in H, NEW j \in H, Before(i, j)
               PROVE  Cardinality(Ahead(i)) < Cardinality(Ahead(j))
    OBVIOUS
  <2>1. Ahead(i) \in SUBSET Ahead(j) /\ i \in Ahead(j) /\ i \notin Ahead(i)
    BY <1>2, <1>4
  <2>2. Cardinality(Ahead(i)) <= Cardinality(Ahead(j)) /\ Cardinality(Ahead(i)) # Cardinality(Ahead(j))
    BY <1>5, <2>1, FS_Subset
  <2> QED
    BY <1>5, <2>2
<1>8. \A j \in H : Cardinality(Ahead(j)) \in 0..(m - 1)
  <2> SUFFICES ASSUME NEW j \in H PROVE Cardinality(Ahead(j)) \in 0..(m - 1)
    OBVIOUS
  <2>1. Cardinality(Ahead(j)) <= m /\ Cardinality(Ahead(j)) # m
    BY <1>4, FS_Subset
  <2> QED
    BY <1>5, <1>6, <2>1
<1> HIDE DEF Ahead, m
<1>9. place \in [H -> 0..(m - 1)]
  BY <1>8
<1>10. \A i, j \in H : place[i] = place[j] => i = j
  <2>1. \A i \in H : place[i] \in Int
    BY <1>5
  <2> QED
    BY <1>1, <1>7, <2>1
<1>11. place \in Injection(H, 0..(m - 1))
  BY <1>9, <1>10 DEF Injection, IsInjective
<1>12. IsFiniteSet(0..(m - 1)) /\ Cardinality(0..(m - 1)) = m
  BY <1>6, FS_Interval
<1>13. place \in Surjection(H, 0..(m - 1))
  <2> HIDE DEF place
  <2> QED
    BY <1>11, <1>12, FS_Injection DEF m
<1>14. n \in 0..(m - 1)
  BY DEF m
<1>15. PICK j \in H : place[j] = n
  <2> HIDE DEF place
  <2> QED
    BY <1>13, <1>14 DEF Surjection
<1>16. Cardinality(Ahead(j)) = n
  BY <1>15
<1> QED
  BY <1>16 DEF Ahead, Before

\* The times of a request are in its years, and the part that covers a time is
\* there and has bars that closed.
LEMMA PartsCover ==
    ASSUME NEW r \in Requests, NEW parts \in Seq(AnyBars), Len(parts) = Len(KeysOf(r))
    PROVE  /\ \A t \in r.from..(r.until - 1) : t \in Times(r)
           /\ \A t \in Times(r) : \A j \in DOMAIN r.providers : PartAt(r, parts, j, t) \in AnyBars
<1> DEFINE Y == YearCount(r)
           L == Len(r.providers)
           F == FirstYear(r)
           U == YearOf(r.until - 1)
<1>1. /\ r.providers \in Seq(STRING) /\ L \in Nat \ {0} /\ r.from \in Nat /\ r.until \in Nat
      /\ r.from < r.until /\ DOMAIN r.providers = 1..L
  BY RequestsAssumption
<1>2. PerYear \in Nat \ {0}
  BY PerYearAssumption
<1>3. \A a \in Nat : /\ YearOf(a) \in Nat /\ YearOf(a) * PerYear <= a
                     /\ a <= (YearOf(a) + 1) * PerYear - 1
  <2> SUFFICES ASSUME NEW a \in Nat
               PROVE  /\ a \div PerYear \in Nat /\ (a \div PerYear) * PerYear <= a
                      /\ a <= ((a \div PerYear) + 1) * PerYear - 1
    BY DEF YearOf
  <2>1. /\ a \div PerYear \in Nat /\ a % PerYear \in 0..(PerYear - 1)
        /\ a = PerYear * (a \div PerYear) + (a % PerYear)
    BY <1>2
  <2> QED
    BY <1>2, <2>1
<1>4. \A a, b \in Nat : a <= b => YearOf(a) <= YearOf(b)
  BY <1>2 DEF YearOf
<1>5. r.until - 1 \in Nat /\ r.from <= r.until - 1
  BY <1>1
<1>6. F \in Nat /\ U \in Nat /\ F <= U /\ Y = U - F + 1 /\ Y \in Nat \ {0} /\ F = YearOf(r.from)
  <2>1. F = YearOf(r.from) /\ Y = U - F + 1
    BY DEF YearCount, FirstYear
  <2>2. F \in Nat /\ U \in Nat /\ F <= U
    BY <1>1, <1>3, <1>4, <1>5, <2>1
  <2> HIDE DEF F, U, Y
  <2> QED
    BY <2>1, <2>2
<1>7. Times(r) = (F * PerYear)..((U + 1) * PerYear - 1)
  <2>1. F + Y = U + 1
    BY <1>6
  <2> QED
    BY <2>1 DEF Times
<1>8. Len(parts) = L * Y
  BY <1>1, <1>6 DEF KeysOf
<1> HIDE DEF Y, L, F, U
<1>9. F * PerYear \in Nat /\ (U + 1) * PerYear - 1 \in Nat
  BY <1>2, <1>6
<1>10. ASSUME NEW t \in r.from..(r.until - 1) PROVE t \in Times(r)
  <2>1. t \in Nat /\ r.from <= t /\ t <= r.until - 1
    BY <1>1
  <2>2. F * PerYear <= r.from /\ r.until - 1 <= (U + 1) * PerYear - 1
    BY <1>1, <1>3, <1>5, <1>6 DEF U
  <2> QED
    BY <1>1, <1>7, <1>9, <2>1, <2>2
<1>11. ASSUME NEW t \in Times(r), NEW j \in DOMAIN r.providers
       PROVE  PartAt(r, parts, j, t) \in AnyBars
  <2> DEFINE y == YearOf(t)
             x == (j - 1) * Y
  <2>1. t \in Nat /\ F * PerYear <= t /\ t <= (U + 1) * PerYear - 1
    BY <1>7, <1>9, <1>11
  <2>2. y \in Nat /\ y * PerYear <= t /\ t <= (y + 1) * PerYear - 1
    BY <1>3, <2>1
  <2> HIDE DEF y
  <2>3. F <= y /\ y <= U
    <3>1. F * PerYear < (y + 1) * PerYear /\ y * PerYear < (U + 1) * PerYear
      <4>1. \A a, b, c, d, e \in Int :
                a <= e /\ e <= b - 1 /\ c <= e /\ e <= d - 1 => a < d /\ c < b
        OBVIOUS
      <4>2. \A a, b \in Nat : a * b \in Nat
        OBVIOUS
      <4>3. F * PerYear \in Int /\ (U + 1) * PerYear \in Int
            /\ y * PerYear \in Int /\ (y + 1) * PerYear \in Int
        BY <1>2, <1>6, <2>2, <4>2
      <4> QED
        BY <2>1, <2>2, <4>1, <4>3
    <3>2. \A a, b \in Nat : a * PerYear < b * PerYear => a < b
      BY <1>2
    <3>3. F < y + 1 /\ y < U + 1
      BY <1>6, <2>2, <3>1, <3>2
    <3> QED
      BY <1>6, <2>2, <3>3
  <2>4. j \in 1..L
    BY <1>1
  <2>5. x \in Nat /\ x + Y <= L * Y
    <3>1. j \in Int /\ j - 1 \in Nat /\ L - j \in Nat
      BY <1>1, <2>4
    <3>2. \A a, b \in Nat : a * b \in Nat
      OBVIOUS
    <3>3. x \in Nat /\ (L - j) * Y \in Nat
      BY <1>6, <3>1, <3>2
    <3>4. x + Y + (L - j) * Y = L * Y
      <4>1. \A a, b, n \in Int : (a - 1) * n + n + (b - a) * n = b * n
        OBVIOUS
      <4>2. L \in Int /\ Y \in Int
        BY <1>1, <1>6
      <4> QED
        BY <3>1, <4>1, <4>2
    <3>5. L * Y \in Nat
      BY <1>1, <1>6, <3>2
    <3> HIDE DEF x
    <3> QED
      BY <1>6, <3>3, <3>4, <3>5
  <2> HIDE DEF x
  <2>6. L * Y \in Nat
    BY <1>1, <1>6
  <2>7. x + y - F + 1 \in 1..(L * Y)
    <3>1. ASSUME NEW a \in Nat, NEW b \in Nat, NEW c \in Nat, NEW d \in Nat, NEW n \in Nat,
                 c <= b, b <= d, a + (d - c + 1) <= n
          PROVE  a + b - c + 1 \in 1..n
      BY <3>1
    <3>2. x + (U - F + 1) <= L * Y
      BY <1>6, <2>5
    <3> QED
      BY <1>6, <2>2, <2>3, <2>5, <2>6, <3>1, <3>2
  <2>8. PartAt(r, parts, j, t) = parts[x + y - F + 1]
    BY DEF PartAt, x, y, Y, F
  <2> QED
    BY <1>8, <2>7, <2>8
<1> QED
  BY <1>10, <1>11

\* The bar that is chosen for a time is that of a provider that has one.
LEMMA ChosenIsAQuote ==
    ASSUME NEW r \in Requests, NEW parts \in Seq(AnyBars), Len(parts) = Len(KeysOf(r)),
           config.precedence \in Precedences, NEW t \in Times(r), Present(r, parts, t) # {}
    PROVE  \E j \in Present(r, parts, t) : Chosen(r, parts, t) = BarOf(r, parts, j, t)
<1> DEFINE here == Present(r, parts, t)
<1>1. here \in SUBSET Nat /\ IsFiniteSet(here) /\ here \in SUBSET (1..Len(r.providers))
  <2>1. r.providers \in Seq(STRING)
    BY RequestsAssumption
  <2>2. here \in SUBSET (1..Len(r.providers)) /\ Len(r.providers) \in Nat
    BY <2>1 DEF Present
  <2>3. IsFiniteSet(1..Len(r.providers))
    <3>1. ASSUME NEW n \in Nat PROVE IsFiniteSet(1..n)
      BY FS_Interval
    <3>2. Len(r.providers) \in Nat
      BY <2>2
    <3> QED
      BY <3>1, <3>2
  <2> QED
    BY <2>2, <2>3, FS_Subset
<1>2. \A i \in here : BarOf(r, parts, i, t).close \in Int
  <2> SUFFICES ASSUME NEW i \in here PROVE PartAt(r, parts, i, t)[t].close \in Int
    BY DEF BarOf
  <2>1. PartAt(r, parts, i, t) \in AnyBars /\ t \in DOMAIN PartAt(r, parts, i, t)
    BY PartsCover DEF Present
  <2> QED
    BY <2>1, QuotesAssumption DEF AnyBars
<1> DEFINE c == [i \in here |-> BarOf(r, parts, i, t).close]
           m == Cardinality(here)
           behind(i, j) == \/ BarOf(r, parts, i, t).close < BarOf(r, parts, j, t).close
                           \/ BarOf(r, parts, i, t).close = BarOf(r, parts, j, t).close /\ i < j
<1>3. m \in Nat /\ m # 0
  BY <1>1, FS_CardinalityType, FS_EmptySet
<1>4. MedianAt(r, parts, t) \in here
  <2>1. c \in [here -> Int]
    BY <1>2
  <2>2. m \div 2 \in 0..(m - 1)
    <3> HIDE DEF m
    <3> QED
      BY <1>3
  <2>3. PICK j \in here : Cardinality({i \in here : c[i] < c[j] \/ (c[i] = c[j] /\ i < j)}) = m \div 2
    <3> HIDE DEF c, here
    <3> QED
      BY <1>1, <2>1, <2>2, PlaceTaken DEF m
  <2>4. {i \in here : c[i] < c[j] \/ (c[i] = c[j] /\ i < j)} = {i \in here : behind(i, j)}
    OBVIOUS
  <2>5. Cardinality({i \in here : behind(i, j)}) = m \div 2
    BY <2>3, <2>4
  <2>6. MedianAt(r, parts, t) = CHOOSE k \in here : Cardinality({i \in here : behind(i, k)}) = m \div 2
    BY DEF MedianAt
  <2> QED
    BY <2>5, <2>6
<1>5. Preferred(r, parts, t) \in here
  <2> DEFINE order == config.precedence
             ranked == {n \in DOMAIN order : \E j \in here : r.providers[j] = order[n]}
             best == CHOOSE n \in ranked : \A k \in ranked : n <= k
  <2>1. CASE ranked # {}
    <3>1. ranked \in SUBSET Nat
      BY PrecedencesAssumption
    <3>2. best \in ranked
      <4> HIDE DEF ranked
      <4> QED
        BY <2>1, <3>1, LeastExists
    <3>3. \E j \in here : r.providers[j] = order[best]
      BY <3>2
    <3>4. Preferred(r, parts, t) = CHOOSE j \in here : r.providers[j] = order[best]
      BY <2>1 DEF Preferred
    <3> HIDE DEF best, here
    <3> QED
      BY <3>3, <3>4
  <2>2. CASE ranked = {}
    <3>1. Preferred(r, parts, t) = CHOOSE j \in here : \A i \in here : j <= i
      BY <2>2 DEF Preferred
    <3>2. \E j \in here : \A i \in here : j <= i
      BY <1>1, LeastExists
    <3> HIDE DEF here
    <3> QED
      BY <3>1, <3>2
  <2> QED
    BY <2>1, <2>2
<1> QED
  BY <1>4, <1>5 DEF Chosen

\* What was merged and not refused says everything: the bars are those there are,
\* each a provider's, and holes and disagreements are reported.
LEMMA DatasetSpeaks ==
    ASSUME NEW r \in Requests, NEW parts \in Seq(AnyBars), Len(parts) = Len(KeysOf(r)),
           config.precedence \in Precedences, ~MergeFails(r, parts),
           NEW t \in r.from..(r.until - 1)
    PROVE  LET data == Dataset(r, parts)
               quotes == {BarOf(r, parts, j, t) : j \in Present(r, parts, t)}
               reported(why) == [ts |-> t, reason |-> why] \in data.warnings
           IN  /\ t \in DOMAIN data.bars <=> quotes # {}
               /\ t \in DOMAIN data.bars => data.bars[t] \in quotes
               /\ quotes # {} /\ Present(r, parts, t) # DOMAIN r.providers => reported("bar_missing")
               /\ Cardinality({q.close : q \in quotes}) > 1
                     => reported("close_mismatch") /\ config.on_disagree # "fail"
               /\ Cardinality({q.volume : q \in quotes}) > 1
                     => reported("volume_mismatch") \/ reported("close_mismatch")
<1> DEFINE here == Present(r, parts, t)
           bars == Dataset(r, parts).bars
           warnings == Dataset(r, parts).warnings
           quotes == {BarOf(r, parts, j, t) : j \in here}
           reported(why) == [ts |-> t, reason |-> why] \in warnings
<1>1. t \in Times(r) /\ r.from <= t /\ t < r.until
  <2>1. r.from \in Nat /\ r.until \in Nat
    BY RequestsAssumption
  <2> QED
    BY <2>1, PartsCover
<1>2. t \in Covered(r, parts) <=> here # {}
  BY <1>1 DEF Covered
<1>3. quotes # {} <=> here # {}
  OBVIOUS
<1>4. DOMAIN bars = {u \in Covered(r, parts) : r.from <= u /\ u < r.until}
  BY DEF Dataset
<1>5. t \in DOMAIN bars <=> quotes # {}
  BY <1>1, <1>2, <1>3, <1>4
<1>6. t \in DOMAIN bars => bars[t] \in quotes
  <2> SUFFICES ASSUME t \in DOMAIN bars PROVE bars[t] \in quotes
    OBVIOUS
  <2>1. bars[t] = Chosen(r, parts, t)
    BY <1>4 DEF Dataset
  <2>2. \E j \in here : Chosen(r, parts, t) = BarOf(r, parts, j, t)
    BY <1>1, <1>3, <1>5, ChosenIsAQuote
  <2> QED
    BY <2>1, <2>2
<1>7. ASSUME here # {}, NEW why \in WarningsAt(r, parts, t) PROVE reported(why)
  <2>1. [ts |-> t, reason |-> why] \in {[ts |-> t, reason |-> w] : w \in WarningsAt(r, parts, t)}
    OBVIOUS
  <2>2. t \in Covered(r, parts)
    BY <1>2, <1>7
  <2>3. warnings = UNION {{[ts |-> u, reason |-> w] : w \in WarningsAt(r, parts, u)} :
                             u \in Covered(r, parts)}
    BY DEF Dataset
  <2> HIDE DEF warnings
  <2> QED
    BY <2>1, <2>2, <2>3
<1> HIDE DEF bars, warnings, reported
<1>8. quotes # {} /\ here # DOMAIN r.providers => reported("bar_missing")
  BY <1>3, <1>7 DEF WarningsAt
<1>9. \A S : Cardinality(S) > 1 /\ (\E x : S \subseteq {x}) => FALSE
  <2> SUFFICES ASSUME NEW S, NEW x, S \subseteq {x} PROVE ~(Cardinality(S) > 1)
    OBVIOUS
  <2>1. S = {} \/ S = {x}
    OBVIOUS
  <2>2. Cardinality(S) = 0 \/ Cardinality(S) = 1
    BY <2>1, FS_EmptySet, FS_Singleton
  <2> QED
    BY <2>2
<1>10. Cardinality({q.close : q \in quotes}) > 1 => ClosesDiffer(r, parts, t) /\ here # {}
  <2> SUFFICES ASSUME ~ClosesDiffer(r, parts, t) \/ here = {}
               PROVE  \E x : {q.close : q \in quotes} \subseteq {x}
    BY <1>9
  <2>1. CASE here = {}
    BY <2>1
  <2>2. CASE here # {}
    <3>1. PICK i \in here : TRUE
      BY <2>2
    <3>2. {q.close : q \in quotes} \subseteq {BarOf(r, parts, i, t).close}
      BY <2>2 DEF ClosesDiffer
    <3> QED
      BY <3>2
  <2> QED
    BY <2>1, <2>2
<1>11. Cardinality({q.volume : q \in quotes}) > 1 => VolumesDiffer(r, parts, t) /\ here # {}
  <2> SUFFICES ASSUME ~VolumesDiffer(r, parts, t) \/ here = {}
               PROVE  \E x : {q.volume : q \in quotes} \subseteq {x}
    BY <1>9
  <2>1. CASE here = {}
    BY <2>1
  <2>2. CASE here # {}
    <3>1. PICK i \in here : TRUE
      BY <2>2
    <3>2. {q.volume : q \in quotes} \subseteq {BarOf(r, parts, i, t).volume}
      BY <2>2 DEF VolumesDiffer
    <3> QED
      BY <3>2
  <2> QED
    BY <2>1, <2>2
<1>12. Cardinality({q.close : q \in quotes}) > 1
          => reported("close_mismatch") /\ config.on_disagree # "fail"
  <2> SUFFICES ASSUME ClosesDiffer(r, parts, t), here # {}
               PROVE  reported("close_mismatch") /\ config.on_disagree # "fail"
    BY <1>10
  <2>1. "close_mismatch" \in WarningsAt(r, parts, t)
    BY DEF WarningsAt
  <2> QED
    BY <1>2, <1>7, <2>1 DEF MergeFails
<1>13. Cardinality({q.volume : q \in quotes}) > 1
          => reported("volume_mismatch") \/ reported("close_mismatch")
  <2> SUFFICES ASSUME VolumesDiffer(r, parts, t), here # {}
               PROVE  reported("volume_mismatch") \/ reported("close_mismatch")
    BY <1>11
  <2>1. \/ "close_mismatch" \in WarningsAt(r, parts, t)
        \/ "volume_mismatch" \in WarningsAt(r, parts, t)
    BY DEF WarningsAt
  <2> QED
    BY <1>7, <2>1
<1> QED
  BY <1>5, <1>6, <1>8, <1>12, <1>13 DEF bars, warnings, reported

\* Only a merge that does not fail gives a response.
LEMMA MergedStays == ASSUME IInv, Merged, [Next]_vars PROVE Merged'
<1> SUFFICES ASSUME config' = config, NEW q \in Procs, job'[q].step = "got"
             PROVE  ~MergeFails(job'[q].request, job'[q].parts)
  <2>1. config' = config
    BY DEF Next, vars, Fetch, Replay, ReadBlob, CallProvider, OpenBlob, FillBlob, RecordRow, Merge,
       RecordManifest, RecordRun, FinishReplay, Crash
  <2>2. \A r, parts : MergeFails(r, parts)' = MergeFails(r, parts)
    BY <2>1 DEF MergeFails, Covered, Times, Present, PartAt, ClosesDiffer, BarOf
  <2> QED
    BY <2>1, <2>2 DEF Merged
<1>1. job \in [Procs -> Jobs] /\ \A p \in Procs : job[p] \in Jobs
  BY DEF IInv, TypeOK
<1>2. Idle.step = "idle"
  BY DEF Idle
<1>3. SUFFICES ASSUME ~(job[q].step = "got" /\ job'[q].request = job[q].request
                          /\ job'[q].parts = job[q].parts)
      PROVE  ~MergeFails(job'[q].request, job'[q].parts)
  BY DEF Merged
<1>4. CASE UNCHANGED vars
  BY <1>3, <1>4 DEF vars
<1>5. ASSUME NEW p \in Procs, NEW j, Moved(p, j), j.step # "got"
      PROVE  FALSE
  BY <1>1, <1>3, <1>5 DEF Moved
<1>6. ASSUME NEW j, "step" \in DOMAIN j PROVE Loop(j).step # "got"
  BY <1>6 DEF Loop, LoopStep
<1>7. ASSUME NEW p \in Procs, Touched(p, KeyNow(p), [job[p] EXCEPT !.step = "fill"])
                                \/ Touched(p, KeyNow(p), [job[p] EXCEPT !.step = "row"])
      PROVE  FALSE
  BY <1>1, <1>3, <1>7 DEF Touched, Jobs
<1>8. ASSUME NEW p \in Procs, Merge(p) PROVE ~MergeFails(job'[q].request, job'[q].parts)
  BY <1>1, <1>2, <1>3, <1>8 DEF Merge, Moved, Jobs
<1>9. CASE Next
  <2>1. PICK p \in Procs :
        \/ \E r \in Requests, m \in Modes : Fetch(p, r, m)
        \/ \E n \in DOMAIN runs : Replay(p, n)
        \/ ReadBlob(p) \/ CallProvider(p) \/ OpenBlob(p) \/ FillBlob(p) \/ RecordRow(p)
        \/ Merge(p) \/ RecordManifest(p) \/ RecordRun(p) \/ FinishReplay(p) \/ Crash(p)
    BY <1>9 DEF Next
  <2>2. job[p] \in Jobs
    BY <1>1
  <2>3. CASE \E r \in Requests, m \in Modes : Fetch(p, r, m)
    BY <1>5, <1>6, <2>3 DEF Fetch, Idle
  <2>4. CASE \E n \in DOMAIN runs : Replay(p, n)
    BY <1>5, <1>6, <2>4 DEF Replay, Idle
  <2>5. CASE ReadBlob(p)
    <3>1. \A b : Loop([job[p] EXCEPT !.parts = Append(@, b)]).step # "got"
      BY <1>6, <2>2 DEF Jobs
    <3>2. [job[p] EXCEPT !.step = "call"].step # "got"
      BY <2>2 DEF Jobs
    <3>3. blobs[KeyNow(p)].state \in {"whole", "torn", "absent"}
      <4>1. KeyNow(p) \in Keys
        BY <2>5, KeyNowIsNew DEF ReadBlob, AtBlob, IInv
      <4> QED
        BY <4>1 DEF IInv, TypeOK, Absent, Torn, File
    <3> QED
      BY <1>2, <1>5, <2>5, <3>1, <3>2, <3>3 DEF ReadBlob
  <2>6. CASE CallProvider(p)
    <3>1. \A b : [job[p] EXCEPT !.step = "open", !.fetched = b].step # "got"
      BY <2>2 DEF Jobs
    <3> QED
      BY <1>2, <1>5, <2>6, <3>1 DEF CallProvider
  <2>7. CASE OpenBlob(p) \/ FillBlob(p)
    BY <1>7, <2>7 DEF OpenBlob, FillBlob
  <2>8. CASE RecordRow(p)
    <3>1. Loop([job[p] EXCEPT !.parts = Append(@, job[p].fetched), !.fetched = NoBars]).step # "got"
      BY <1>6, <2>2 DEF Jobs
    <3> QED
      BY <1>5, <2>8, <3>1 DEF RecordRow
  <2>9. CASE Merge(p)
    BY <1>8, <2>9
  <2>10. CASE RecordManifest(p)
    <3>1. [job[p] EXCEPT !.step = "backtested"].step # "got"
      BY <2>2 DEF Jobs
    <3> QED
      BY <1>5, <2>10, <3>1 DEF RecordManifest
  <2>11. CASE RecordRun(p) \/ FinishReplay(p) \/ Crash(p)
    BY <1>2, <1>5, <2>11 DEF RecordRun, FinishReplay, Crash
  <2> QED
    BY <2>1, <2>3, <2>4, <2>5, <2>6, <2>7, <2>8, <2>9, <2>10, <2>11
<1> QED
  BY <1>4, <1>9

\* A response drops, invents and hides nothing (NoSilentDisagreement).
THEOREM NeverSilent == Spec => []NoSilentDisagreement
<1>1. Init => Merged
  BY DEF Init, Merged, Idle
<1>2. IInv /\ Merged => NoSilentDisagreement
  <2> SUFFICES ASSUME IInv, Merged, NEW p \in Procs, job[p].step = "got"
               PROVE  LET r == job[p].request
                          data == Dataset(r, job[p].parts)
                          quotes(t) == {BarOf(r, job[p].parts, j, t) : j \in Present(r, job[p].parts, t)}
                          reported(t, why) == [ts |-> t, reason |-> why] \in data.warnings
                      IN  \A t \in r.from..(r.until - 1) :
                /\ t \in DOMAIN data.bars <=> quotes(t) # {}
                /\ t \in DOMAIN data.bars => data.bars[t] \in quotes(t)
                /\ quotes(t) # {} /\ Present(r, job[p].parts, t) # DOMAIN r.providers
                      => reported(t, "bar_missing")
                /\ Cardinality({q.close : q \in quotes(t)}) > 1
                      => reported(t, "close_mismatch") /\ config.on_disagree # "fail"
                /\ Cardinality({q.volume : q \in quotes(t)}) > 1
                      => reported(t, "volume_mismatch") \/ reported(t, "close_mismatch")
    BY DEF NoSilentDisagreement
  <2>1. /\ job[p].request \in Requests /\ job[p].parts \in Seq(AnyBars)
        /\ Len(job[p].parts) = Len(KeysOf(job[p].request))
    BY DEF IInv, TypeOK, Jobs, Progress, Complete
  <2>2. config.precedence \in Precedences /\ ~MergeFails(job[p].request, job[p].parts)
    BY DEF Merged
  <2> QED
    BY <2>1, <2>2, DatasetSpeaks
<1> QED
  BY <1>1, <1>2, InductiveInvariant, MergedStays, PTL DEF Spec
=============================================================================

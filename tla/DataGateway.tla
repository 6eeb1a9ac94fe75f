----------------------------- MODULE DataGateway -----------------------------
(***************************************************************************)
(* The data gateway (crates/data-gateway) and the replay of recorded runs  *)
(* from the experiment ledger (crates/ledger, py-bindings/ledger_mod.rs).  *)
(*                                                                         *)
(* Processes of the research loop share one cache directory and one        *)
(* ledger.  A blob of the cache is one provider's bars of one year, in a   *)
(* file named after its inputs and overwritten in place: std::fs::write    *)
(* first truncates the file, then fills it.  A process may die between any *)
(* two steps.  A provider may answer the same query differently each time. *)
(*                                                                         *)
(* Time is counted in bars, PerYear of them a year; a bar is its close and *)
(* volume, and two that differ are further apart than the tolerance.  One  *)
(* symbol, resolution and adjustment: they do no more than name blobs.     *)
(***************************************************************************)
EXTENDS Integers, Sequences, FiniteSets

CONSTANTS
    Procs,          \* processes using the cache and the ledger
    Requests,       \* the requests made: [providers, from, until]
    Modes,          \* the cache modes used
    PerYear,        \* bars in a year
    Published(_),   \* what a provider may answer for a year: bar times -> quotes
    Precedences,    \* the consolidator's precedence lists; << >> by default
    Policies,       \* the consolidator's on_disagree policies
    MaxCalls,       \* bound: calls of providers
    MaxRuns         \* bound: runs recorded in the ledger

CacheModes == {"prefer_cache", "validate", "force_refresh", "offline"}
DivergencePolicies == {"pick_precedence", "fail", "median"}

ASSUME ModesAssumption == Modes \subseteq CacheModes
ASSUME PoliciesAssumption == Policies \subseteq DivergencePolicies
ASSUME PerYearAssumption == PerYear \in Nat \ {0}
\* fetch and load_dataset_from_manifest refuse a request with start >= end.
\* The model's own restriction: a request names a provider once.
ASSUME RequestsAssumption ==
    \A r \in Requests :
        /\ r.providers \in Seq(STRING) \ {<<>>}
        /\ r.from \in Nat /\ r.until \in Nat /\ r.from < r.until
        /\ \A i, j \in DOMAIN r.providers : r.providers[i] = r.providers[j] => i = j

(***************************************************************************)
(* Requests, blob keys and manifests                                       *)
(***************************************************************************)
YearOf(t) == t \div PerYear

\* years_in_range: an end on New Year excludes the year that begins there.
FirstYear(r) == YearOf(r.from)
YearCount(r) == YearOf(r.until - 1) - FirstYear(r) + 1

\* The blobs of a request, provider by provider and year by year: the manifest.
\* A BlobKey hashes these inputs and not the bars, and the manifest hash is a
\* hash of this list.
KeysOf(r) ==
    [i \in 1..(Len(r.providers) * YearCount(r)) |->
        [provider |-> r.providers[((i - 1) \div YearCount(r)) + 1],
         year |-> FirstYear(r) + ((i - 1) % YearCount(r))]]

KeySet(r) == {KeysOf(r)[i] : i \in DOMAIN KeysOf(r)}
Keys == UNION {KeySet(r) : r \in Requests}

\* A close is a number, and a precedence list names providers.
ASSUME QuotesAssumption ==
    \A k \in Keys : \A bars \in Published(k.year) : \A t \in DOMAIN bars : bars[t].close \in Int
ASSUME PrecedencesAssumption == \A order \in Precedences : order \in Seq(STRING)

VARIABLES
    config,     \* the consolidator's configuration
    blobs,      \* blobs[k]: the file of key k
    rows,       \* keys with a row in manifest.sqlite
    job,        \* job[p]: what process p is doing
    manifests,  \* the ledger's dataset_manifests: the requests, one per hash
    runs,       \* the ledger's runs, each with the bars it was computed from
    replayed,   \* the last dataset that replay_run returned, and of which run
    calls       \* calls of providers so far

vars == <<config, blobs, rows, job, manifests, runs, replayed, calls>>

NoBars == <<>>
Absent == [state |-> "absent", bars |-> NoBars]
Torn == [state |-> "torn", bars |-> NoBars]
File(b) == [state |-> "whole", bars |-> b]

AnyRequest == CHOOSE r \in Requests : TRUE
\* parts: the blobs loaded so far, in manifest order; fetched: a provider's answer
\* that is being stored; stale: a file whose bars were loaded has changed since.
Idle == [step |-> "idle", request |-> AnyRequest, mode |-> "offline", run |-> 0,
         parts |-> <<>>, fetched |-> NoBars, stale |-> FALSE]
NoReplay == [run |-> 0, request |-> AnyRequest, parts |-> <<>>, stale |-> FALSE]

Init ==
    /\ config \in [precedence : Precedences, on_disagree : Policies]
    /\ blobs = [k \in Keys |-> Absent]
    /\ rows = {}
    /\ job = [p \in Procs |-> Idle]
    /\ manifests = {}
    /\ runs = <<>>
    /\ replayed = NoReplay
    /\ calls = 0

(***************************************************************************)
(* Consolidation and normalization                                         *)
(***************************************************************************)
Times(r) == (FirstYear(r) * PerYear)..((FirstYear(r) + YearCount(r)) * PerYear - 1)

\* The part of the provider at position j that covers time t.
PartAt(r, parts, j, t) == parts[(j - 1) * YearCount(r) + YearOf(t) - FirstYear(r) + 1]
\* The positions of the providers that have a bar at t, in request order.
Present(r, parts, t) == {j \in DOMAIN r.providers : t \in DOMAIN PartAt(r, parts, j, t)}
BarOf(r, parts, j, t) == PartAt(r, parts, j, t)[t]

ClosesDiffer(r, parts, t) ==
    \E i, j \in Present(r, parts, t) : BarOf(r, parts, i, t).close # BarOf(r, parts, j, t).close
VolumesDiffer(r, parts, t) ==
    \E i, j \in Present(r, parts, t) : BarOf(r, parts, i, t).volume # BarOf(r, parts, j, t).volume

\* pick_by_precedence, else the first provider of the request that has the bar.
Preferred(r, parts, t) ==
    LET here == Present(r, parts, t)
        ranked == {n \in DOMAIN config.precedence :
                      \E j \in here : r.providers[j] = config.precedence[n]}
        best == CHOOSE n \in ranked : \A m \in ranked : n <= m
    IN  IF ranked # {} THEN CHOOSE j \in here : r.providers[j] = config.precedence[best]
        ELSE CHOOSE j \in here : \A i \in here : j <= i

\* The provider of the median close: a stable sort, the upper of two middles.
MedianAt(r, parts, t) ==
    LET here == Present(r, parts, t)
        before(i, j) == \/ BarOf(r, parts, i, t).close < BarOf(r, parts, j, t).close
                        \/ BarOf(r, parts, i, t).close = BarOf(r, parts, j, t).close /\ i < j
    IN  CHOOSE j \in here : Cardinality({i \in here : before(i, j)}) = Cardinality(here) \div 2

Chosen(r, parts, t) ==
    IF config.on_disagree = "median" /\ Cardinality(Present(r, parts, t)) > 1
    THEN BarOf(r, parts, MedianAt(r, parts, t), t)
    ELSE BarOf(r, parts, Preferred(r, parts, t), t)

\* Mutant: a disagreement hides a missing bar.
OneWarning(r, parts, t) ==
    IF ClosesDiffer(r, parts, t) THEN {"close_mismatch"}
    ELSE IF VolumesDiffer(r, parts, t) THEN {"volume_mismatch"}
    ELSE IF Present(r, parts, t) # DOMAIN r.providers THEN {"bar_missing"} ELSE {}

\* The divergence records of time t.
WarningsAt(r, parts, t) ==
    {why \in {"bar_missing", "close_mismatch", "volume_mismatch"} :
        CASE why = "bar_missing" -> Present(r, parts, t) # DOMAIN r.providers
          [] why = "close_mismatch" -> ClosesDiffer(r, parts, t)
          [] why = "volume_mismatch" -> ~ClosesDiffer(r, parts, t) /\ VolumesDiffer(r, parts, t)}

Covered(r, parts) == {t \in Times(r) : Present(r, parts, t) # {}}

\* Consolidator::merge fails on a close mismatch under the policy `Fail`.
MergeFails(r, parts) ==
    config.on_disagree = "fail" /\ \E t \in Covered(r, parts) : ClosesDiffer(r, parts, t)

\* merge and normalize_bars: the bars are clipped to the range, the warnings not.
Dataset(r, parts) ==
    [bars |-> [t \in {u \in Covered(r, parts) : r.from <= u /\ u < r.until} |-> Chosen(r, parts, t)],
     warnings |-> UNION {{[ts |-> t, reason |-> why] : why \in WarningsAt(r, parts, t)} :
                            t \in Covered(r, parts)}]

(***************************************************************************)
(* DataGateway::fetch                                                      *)
(***************************************************************************)
AllLoaded(j) == Len(j.parts) = Len(KeysOf(j.request))
KeyNow(p) == KeysOf(job[p].request)[Len(job[p].parts) + 1]
Moved(p, j) == job' = [job EXCEPT ![p] = j]

\* Where the loop over the blobs goes next.
LoopStep(j) == IF AllLoaded(j) THEN "merge"
               ELSE IF j.mode = "force_refresh" THEN "call" ELSE "read"
Loop(j) == [j EXCEPT !.step = LoopStep(j)]

Fetch(p, r, m) ==
    /\ job[p].step = "idle"
    /\ Moved(p, Loop([Idle EXCEPT !.request = r, !.mode = m]))
    /\ UNCHANGED <<config, blobs, rows, manifests, runs, replayed, calls>>

\* BlobStore::read: a file that does not parse is an error in every mode.
ReadBlob(p) ==
    LET file == blobs[KeyNow(p)]
        missed == IF job[p].mode = "offline" THEN Idle ELSE [job[p] EXCEPT !.step = "call"]
    IN
    /\ job[p].step = "read"
    /\ CASE file.state = "whole" -> Moved(p, Loop([job[p] EXCEPT !.parts = Append(@, file.bars)]))
         [] file.state = "torn" -> Moved(p, Idle)
         [] file.state = "absent" -> Moved(p, missed)
    /\ UNCHANGED <<config, blobs, rows, manifests, runs, replayed, calls>>

\* Mutant: the row is recorded before the file exists.
EarlyRow(p) ==
    /\ job[p].step = "call"
    /\ calls < MaxCalls
    /\ calls' = calls + 1
    /\ rows' = rows \union {KeyNow(p)}
    /\ \/ \E b \in Published(KeyNow(p).year) : Moved(p, [job[p] EXCEPT !.step = "open", !.fetched = b])
       \/ Moved(p, Idle)
    /\ UNCHANGED <<config, blobs, manifests, runs, replayed>>

\* refresh_year: the provider answers, or fails the fetch.
CallProvider(p) ==
    /\ job[p].step = "call"
    /\ calls < MaxCalls
    /\ calls' = calls + 1
    /\ \/ \E b \in Published(KeyNow(p).year) : Moved(p, [job[p] EXCEPT !.step = "open", !.fetched = b])
       \/ Moved(p, Idle)
    /\ UNCHANGED <<config, blobs, rows, manifests, runs, replayed>>

\* The blobs whose content process p counts on.
Loaded(p) ==
    {KeysOf(job[p].request)[i] : i \in 1..Len(job[p].parts)}
        \union (IF job[p].step = "row" THEN {KeyNow(p)} ELSE {})

\* File k changes under everyone but p.
Touched(p, k, j) ==
    /\ job' = [q \in Procs |-> IF q = p THEN j
                               ELSE [job[q] EXCEPT !.stale = @ \/ k \in Loaded(q)]]
    /\ runs' = [n \in DOMAIN runs |-> [runs[n] EXCEPT !.stale = @ \/ k \in KeySet(runs[n].request)]]

\* Mutant: a file that exists is left as it is.
WriteOnce(p) ==
    LET whole == blobs[KeyNow(p)].state = "whole"
    IN
    /\ job[p].step = "open"
    /\ blobs' = IF whole THEN blobs ELSE [blobs EXCEPT ![KeyNow(p)] = Torn]
    /\ Moved(p, [job[p] EXCEPT !.step = IF whole THEN "row" ELSE "fill"])
    /\ UNCHANGED <<config, rows, manifests, runs, replayed, calls>>

\* BlobStore::write truncates the file ...
OpenBlob(p) ==
    /\ job[p].step = "open"
    /\ blobs' = [blobs EXCEPT ![KeyNow(p)] = Torn]
    /\ Touched(p, KeyNow(p), [job[p] EXCEPT !.step = "fill"])
    /\ UNCHANGED <<config, rows, manifests, replayed, calls>>

\* ... and fills it; two writers at once may leave a mix of both behind.
FillBlob(p) ==
    LET k == KeyNow(p)
        alone == blobs[k] = Torn /\ \A q \in Procs \ {p} : ~(job[q].step = "fill" /\ KeyNow(q) = k)
    IN
    /\ job[p].step = "fill"
    /\ \E file \in {File(job[p].fetched)} \union (IF alone THEN {} ELSE {Torn}) :
          blobs' = [blobs EXCEPT ![k] = file]
    /\ Touched(p, k, [job[p] EXCEPT !.step = "row"])
    /\ UNCHANGED <<config, rows, manifests, replayed, calls>>

\* ManifestStore::record; the bars served are the provider's, not the file's.
RecordRow(p) ==
    /\ job[p].step = "row"
    /\ rows' = rows \union {KeyNow(p)}
    /\ Moved(p, Loop([job[p] EXCEPT !.parts = Append(@, job[p].fetched), !.fetched = NoBars]))
    /\ UNCHANGED <<config, blobs, manifests, runs, replayed, calls>>

\* Consolidate and normalize; the response stays with the caller.
Merge(p) ==
    /\ job[p].step = "merge"
    /\ job[p].run = 0
    /\ Moved(p, IF MergeFails(job[p].request, job[p].parts) THEN Idle
                ELSE [job[p] EXCEPT !.step = "got"])
    /\ UNCHANGED <<config, blobs, rows, manifests, runs, replayed, calls>>

(***************************************************************************)
(* The ledger                                                              *)
(***************************************************************************)
\* record_dataset_manifest, by whoever holds a response: an INSERT that fails,
\* and changes nothing, when the hash has a row.
RecordManifest(p) ==
    /\ job[p].step = "got"
    /\ manifests' = IF \E m \in manifests : KeysOf(m) = KeysOf(job[p].request) THEN manifests
                    ELSE manifests \union {job[p].request}
    /\ Moved(p, [job[p] EXCEPT !.step = "backtested"])
    /\ UNCHANGED <<config, blobs, rows, runs, replayed, calls>>

\* record_run, of a backtest over the response.
RecordRun(p) ==
    /\ job[p].step = "backtested"
    /\ Len(runs) < MaxRuns
    /\ runs' = Append(runs, [request |-> job[p].request, parts |-> job[p].parts,
                             stale |-> job[p].stale])
    /\ Moved(p, Idle)
    /\ UNCHANGED <<config, blobs, rows, manifests, replayed, calls>>

\* The manifest row that a run's dataset_manifest_hash names.
ManifestOf(run) == CHOOSE m \in manifests : KeysOf(m) = KeysOf(run.request)

\* replay_run looks the run and its manifest up ...
Replay(p, n) ==
    /\ job[p].step = "idle"
    /\ Moved(p, Loop([Idle EXCEPT !.request = ManifestOf(runs[n]), !.run = n]))
    /\ UNCHANGED <<config, blobs, rows, manifests, runs, replayed, calls>>

\* ... and load_dataset_from_manifest reads its blobs from the cache alone.  The
\* list of blobs and its hash are compared with the recorded ones: being functions
\* of the request they always match.
FinishReplay(p) ==
    LET n == job[p].run
        r == job[p].request
    IN
    /\ job[p].step = "merge"
    /\ n # 0
    /\ replayed' = IF MergeFails(r, job[p].parts) THEN replayed
                   ELSE [run |-> n, request |-> r, parts |-> job[p].parts, stale |-> runs[n].stale]
    /\ Moved(p, Idle)
    /\ UNCHANGED <<config, blobs, rows, manifests, runs, calls>>

\* The process dies; its file stays as it is, and the ledger has what it has.
Crash(p) ==
    /\ job[p].step # "idle"
    /\ Moved(p, Idle)
    /\ UNCHANGED <<config, blobs, rows, manifests, runs, replayed, calls>>

Next ==
    \E p \in Procs :
        \/ \E r \in Requests, m \in Modes : Fetch(p, r, m)
        \/ \E n \in DOMAIN runs : Replay(p, n)
        \/ ReadBlob(p) \/ CallProvider(p) \/ OpenBlob(p) \/ FillBlob(p) \/ RecordRow(p)
        \/ Merge(p) \/ RecordManifest(p) \/ RecordRun(p) \/ FinishReplay(p) \/ Crash(p)

Spec == Init /\ [][Next]_vars

(***************************************************************************)
(* Properties                                                              *)
(***************************************************************************)
\* manifest.sqlite never lists a blob that has no file: refresh_year writes the file
\* first, whatever other processes do to it and wherever a process dies.
RowsFollowBlobs == \A k \in rows : blobs[k] # Absent

\* Two runs recorded for the same request were computed from the same bars, also
\* when fetches of two processes cross: what refresh_year returns is what a later
\* read of the cache gives.  And replay_run of a run whose request is the recorded
\* one gives the bars and the warnings that the fetch gave.  Both, unless a file
\* of the run was written again since.
RunsReproduce ==
    /\ \A m, n \in DOMAIN runs :
          runs[m].request = runs[n].request /\ ~runs[m].stale /\ ~runs[n].stale
              => runs[m].parts = runs[n].parts
    /\ replayed.run # 0 /\ ~replayed.stale /\ ManifestOf(runs[replayed.run]) = runs[replayed.run].request
          => Dataset(replayed.request, replayed.parts)
                = Dataset(runs[replayed.run].request, runs[replayed.run].parts)

\* A fetch that returns has a bar for every time of the range at which a provider
\* has one, and for no other; the bar is a provider's own. A provider's hole and
\* a disagreement on the close are both reported, the second even under `median`,
\* and under `fail` no such dataset is returned.
NoSilentDisagreement ==
    \A p \in Procs : job[p].step = "got" =>
        LET r == job[p].request
            data == Dataset(r, job[p].parts)
            quotes(t) == {BarOf(r, job[p].parts, j, t) : j \in Present(r, job[p].parts, t)}
            reported(t, why) == [ts |-> t, reason |-> why] \in data.warnings
        IN  \A t \in r.from..(r.until - 1) :
                /\ t \in DOMAIN data.bars <=> quotes(t) # {}
                /\ t \in DOMAIN data.bars => data.bars[t] \in quotes(t)
                /\ quotes(t) # {} /\ Present(r, job[p].parts, t) # DOMAIN r.providers
                      => reported(t, "bar_missing")
                /\ Cardinality({q.close : q \in quotes(t)}) > 1
                      => reported(t, "close_mismatch") /\ config.on_disagree # "fail"
                /\ Cardinality({q.volume : q \in quotes(t)}) > 1
                      => reported(t, "volume_mismatch") \/ reported(t, "close_mismatch")
=============================================================================

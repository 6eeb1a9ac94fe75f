---------------------------- MODULE MCDataGateway ----------------------------
(***************************************************************************)
(* A small instance of DataGateway: years of two bars, and what a          *)
(* provider may answer for each.                                           *)
(***************************************************************************)
EXTENDS DataGateway, TLC

Year(names) == [providers |-> names, from |-> 0, until |-> 2]
HalfYear(names) == [providers |-> names, from |-> 1, until |-> 2]

\* A whole year and half of it from the same blob; and to consolidate, half a
\* year from up to three providers, and a range over a new year from one.
Asked == {Year(<<"csv">>), HalfYear(<<"csv">>),
          HalfYear(<<"csv", "yfinance", "mock">>),
          [providers |-> <<"yfinance">>, from |-> 1, until |-> 3]}

Quote(c, v) == [close |-> c, volume |-> v]
Only(t, q) == [u \in {t} |-> q]
Pair(t, q, s) == [u \in {t, t + 1} |-> IF u = t THEN q ELSE s]

\* The first year with a close and a volume revised, or a bar missing.
Answers(year) ==
    IF year = 0
    THEN {Pair(0, Quote(1, 1), Quote(2, 1)), Pair(0, Quote(1, 2), Quote(3, 2)),
          Only(0, Quote(1, 1))}
    ELSE {Pair(2 * year, Quote(1, 1), Quote(1, 1))}

SomePrecedence == {<<>>, <<"yfinance", "csv">>}

Symmetric == Permutations(Procs)

\* Bound: processes that cross, and files written twice, are seen with one
\* provider that has every bar, and the default configuration; who consolidates
\* is alone, and does so once and in the modes that never write over a file.
Default == [precedence |-> <<>>, on_disagree |-> "pick_precedence"]
Busy == {p \in Procs : job[p].step # "idle"}
Single(r) == r.providers = <<"csv">>
Crossing ==
    /\ config = Default /\ calls <= 2
    /\ \A k \in Keys : k.provider # "csv" => blobs[k] = Absent
    /\ \A p \in Busy : /\ Single(job[p].request) /\ Cardinality(DOMAIN job[p].fetched) # 1
                       /\ job[p].run = 0 => job[p].mode \in {"prefer_cache", "force_refresh"}
Consolidating ==
    /\ Len(runs) <= 1 /\ \A r \in manifests : ~Single(r)
    /\ Cardinality(Busy) <= 1
    /\ \A p \in Busy : /\ ~Single(job[p].request)
                       /\ job[p].run = 0 => runs = <<>> /\ job[p].mode \in {"prefer_cache", "offline"}
Scenario == Crossing \/ Consolidating
=============================================================================

---------------------------- MODULE DiagnoseRules ----------------------------
(***************************************************************************)
(* What the hypothesis loop is told of a backtest (diagnose.py): counts    *)
(* and sums over the trades, the trades of each regime, the signals that   *)
(* fired without a trade, and the drawdowns of the equity curve the engine *)
(* recorded (crates/engine/src/equity_recorder.rs).                        *)
(*                                                                         *)
(* A trade is [entry, exit, pnl, reason, signals] with times in minutes; a *)
(* drawdown is in thousandths of the peak.                                 *)
(***************************************************************************)
EXTENDS Integers, Sequences, FiniteSets, Functions, FiniteSetsExt

Indices(seq, P(_)) == {i \in DOMAIN seq : P(seq[i])}
Count(seq, P(_)) == Cardinality(Indices(seq, P))
Pnl(trades, indices) == FoldFunctionOnSet(+, 0, [i \in DOMAIN trades |-> trades[i].pnl], indices)

(***************************************************************************)
(* The equity curve                                                        *)
(***************************************************************************)
\* EquityRecorder::record: the drop from the highest equity so far
Recorded(initial, equity) ==
    LET peak(i) == Max({initial} \cup {equity[j] : j \in 1..i})
    IN  [i \in DOMAIN equity |->
            [equity |-> equity[i],
             drawdown |-> IF peak(i) > 0
                          THEN Max({0, (1000 * (peak(i) - equity[i])) \div peak(i)}) ELSE 0]]

\* _drawdown_trajectory: an episode is a run of points with a drawdown below
\* zero, up to the first point without one or to the end of the series.
Episodes(points) ==
    {<<first, last>> \in (DOMAIN points) \X (DOMAIN points) :
        /\ first <= last
        /\ \A i \in first..last : points[i].drawdown < 0
        /\ first = 1 \/ points[first - 1].drawdown >= 0
        /\ last = Len(points) \/ points[last + 1].drawdown >= 0}
Depth(points) ==
    Min({0} \cup {points[i].drawdown : i \in {j \in DOMAIN points : points[j].drawdown < 0}})
Shape(points) ==
    LET depth == 0 - Depth(points)
    IN  IF depth <= 5 THEN "flat" ELSE IF depth <= 50 THEN "shallow"
        ELSE IF depth <= 150 THEN "moderate" ELSE "deep"

(***************************************************************************)
(* Trades                                                                  *)
(***************************************************************************)
\* _trade_stats
TradeStats(trades) ==
    [total |-> Len(trades),
     winners |-> Count(trades, LAMBDA t : t.pnl > 0),
     losers |-> Count(trades, LAMBDA t : t.pnl < 0),
     breakeven |-> Len(trades) - Count(trades, LAMBDA t : t.pnl > 0)
                              - Count(trades, LAMBDA t : t.pnl < 0),
     pnl |-> Pnl(trades, DOMAIN trades)]

\* _exit_reason_histogram: an empty reason is "unspecified"
ReasonOf(trade) == IF trade.reason = "" THEN "unspecified" ELSE trade.reason
ExitReasons(trades) ==
    [r \in {ReasonOf(trades[i]) : i \in DOMAIN trades} |-> Count(trades, LAMBDA t : ReasonOf(t) = r)]

\* _holding_period_pnl_histogram: the first bucket whose ceiling is not passed
Ceilings == <<15, 60, 240, 1440>>
BucketAny(trade) == {b \in 1..5 : b = 5 \/ trade.exit - trade.entry <= Ceilings[b]}
Bucket(trade) == {Min({b \in 1..5 : b = 5 \/ trade.exit - trade.entry <= Ceilings[b]})}
HoldingPeriods(trades) ==
    LET In(b) == Indices(trades, LAMBDA t : b \in Bucket(t))
    IN  [b \in {c \in 1..5 : In(c) # {}} |-> [trades |-> Cardinality(In(b)), pnl |-> Pnl(trades, In(b))]]

\* _regime_performance over tags [label, start, end]: a trade is of a regime if
\* it was entered in one of its ranges, the end excluded.
InRegime(trade, tags, label) ==
    \E i \in DOMAIN tags :
        tags[i].label = label /\ tags[i].start <= trade.entry /\ trade.entry < tags[i].end
Regimes(trades, tags) ==
    [l \in {tags[i].label : i \in DOMAIN tags} |->
        LET In == Indices(trades, LAMBDA t : InRegime(t, tags, l))
        IN  [trades |-> Cardinality(In), pnl |-> Pnl(trades, In)]]

(***************************************************************************)
(* Signals: [name, ts, fired, suppressed]                                  *)
(***************************************************************************)
\* _signal_misfires
Misfires(signals, trades) ==
    LET fired(n) == Count(signals, LAMBDA s : s.name = n /\ s.fired)
        suppressed(n) == Count(signals, LAMBDA s : s.name = n /\ ~s.fired /\ s.suppressed)
        used(n) == Count(trades, LAMBDA t : n \in t.signals)
        names == {signals[i].name : i \in Indices(signals, LAMBDA s : s.fired \/ s.suppressed)}
                    \cup UNION {trades[i].signals : i \in DOMAIN trades}
    IN  [n \in names |-> [fired |-> fired(n), suppressed |-> suppressed(n), used |-> used(n),
                          firedNoTrade |-> Max({0, fired(n) - used(n)})]]

\* _missed_opportunity_regions over windows of an hour from the first signal: at
\* least one signal fired and at least half of the pressure was suppressed.
Window(signals, s) == (s.ts - Min({signals[i].ts : i \in DOMAIN signals})) \div 60
Regions(signals, trades) ==
    LET In(w) == Indices(signals, LAMBDA s : Window(signals, s) = w)
        fired(w) == {i \in In(w) : signals[i].fired}
        suppressed(w) == {i \in In(w) : ~signals[i].fired /\ signals[i].suppressed}
        windows == {Window(signals, signals[i]) : i \in DOMAIN signals}
        start(w) == Min({signals[i].ts : i \in In(w)})
        end(w) == Max({signals[i].ts : i \in In(w)})
        traded(w) == Count(trades, LAMBDA t : start(w) <= t.entry /\ t.entry <= end(w))
        flagged == {w \in windows : fired(w) # {} /\ Cardinality(suppressed(w)) >= Cardinality(fired(w))}
    IN  [w \in flagged |->
            [start |-> start(w), end |-> end(w), trades |-> traded(w),
             firedNoTrade |-> Max({0, Cardinality(fired(w)) - traded(w)})]]

\* diagnose
Diagnose(trades, equity, tags, signals) ==
    [stats |-> TradeStats(trades), reasons |-> ExitReasons(trades),
     holding |-> HoldingPeriods(trades), regimes |-> Regimes(trades, tags),
     misfires |-> Misfires(signals, trades), regions |-> Regions(signals, trades),
     shape |-> Shape(Recorded(100, equity)),
     episodes |-> Cardinality(Episodes(Recorded(100, equity)))]

----------------------------------------------------------------------------
Sum(f) == FoldFunction(+, 0, f)

\* The views of a diagnosis agree with each other: every trade is a winner, a
\* loser or even, has one exit reason and one holding period, and is counted
\* once in a regime however its ranges touch; regimes that tile the run share
\* out all trades and all money; a signal that fired was used or is reported.
DiagnosisAddsUp(trades, equity, tags, signals) ==
    LET d == Diagnose(trades, equity, tags, signals)
        n == Len(trades)
        tiled == \A i \in DOMAIN trades :
                    \E l \in DOMAIN d.regimes : InRegime(trades[i], tags, l)
    IN  /\ d.stats.winners + d.stats.losers + d.stats.breakeven = n
        /\ Sum(d.reasons) = n
        /\ Sum([b \in DOMAIN d.holding |-> d.holding[b].trades]) = n
        /\ Sum([b \in DOMAIN d.holding |-> d.holding[b].pnl]) = d.stats.pnl
        /\ \A l \in DOMAIN d.regimes : d.regimes[l].trades <= n
        /\ tiled => /\ Sum([l \in DOMAIN d.regimes |-> d.regimes[l].trades]) = n
                    /\ Sum([l \in DOMAIN d.regimes |-> d.regimes[l].pnl]) = d.stats.pnl
        /\ \A s \in DOMAIN d.misfires :
            d.misfires[s].firedNoTrade + d.misfires[s].used >= d.misfires[s].fired
        /\ \A w \in DOMAIN d.regions : d.regions[w].end - d.regions[w].start < 60

\* The diagnosis of a run whose equity fell by more than half a percent is not
\* "flat": the loop is told of its drawdowns (diagnose.py:110, "flat (no
\* drawdowns)").
DrawdownsAreSeen(trades, equity, tags, signals) ==
    LET d == Diagnose(trades, equity, tags, signals)
    IN  (\E i \in DOMAIN equity : Recorded(100, equity)[i].drawdown > 5) =>
            d.shape # "flat" /\ d.episodes > 0
=============================================================================
